---- MODULE Spec2Model ----
(***************************************************************************)
(* A model of the corpus bundling and retrieval engine:                    *)
(*   corpus/pack.py        apply_defaults, the glob matcher, the directory *)
(*                         walk, the bundle writer and its envelope        *)
(*   corpus/mcp/sources.py BundleSource (offset index, get_file) and       *)
(*                         DirSource (listing, get_file)                   *)
(* Text is a sequence of one-character strings, a byte stream a sequence   *)
(* of integers 0..255.                                                     *)
(***************************************************************************)
EXTENDS Integers, Sequences, FiniteSets, TLC

VARIABLES tree, cfg, clock, disk, run, runs, prev_out, src, ret, calls, handles,
          catalog, adders, batch

vars == <<tree, cfg, clock, disk, run, runs, prev_out, src, ret, calls, handles,
          catalog, adders, batch>>

\* the calls in progress, thread by thread, and the file handles they opened
threads == <<calls, handles>>

\* no thread has called anything
NoThreads == calls = << >> /\ handles = << >>

\* the catalog file of the home, the add_collection calls in progress on it,
\* and the batch of captures
services == <<catalog, adders, batch>>

\* no catalog is kept and no batch runs
NoServices == catalog = << >> /\ adders = << >> /\ batch = << >>

(***************************************************************************)
(* Bounds of the model.                                                    *)
(***************************************************************************)
\* the number of files in the packed directory
MaxFiles == 2
\* the wall-clock seconds that may pass
MaxClock == 1
\* the number of pack_directory calls
MaxRuns == 2

(***************************************************************************)
(* Sequences, text and bytes.                                              *)
(***************************************************************************)
Range(s) == {s[i] : i \in 1..Len(s)}

\* the element of a one-element set; {f(v) : v \in {e}} evaluates e once, to a
\* value, before f reads it
Only(S) == CHOOSE x \in S : TRUE

Max2(a, b) == IF a >= b THEN a ELSE b

Min2(a, b) == IF a <= b THEN a ELSE b

\* s[i..j], empty when i > j
Slice(s, i, j) == IF i > j THEN << >> ELSE SubSeq(s, i, j)

RECURSIVE Concat(_)
\* "".join(seqs), by halves
Concat(seqs) ==
    IF Len(seqs) = 0 THEN << >>
    ELSE IF Len(seqs) = 1 THEN seqs[1]
    ELSE LET h == Len(seqs) \div 2
         IN  Concat(SubSeq(seqs, 1, h)) \o Concat(SubSeq(seqs, h + 1, Len(seqs)))

\* sep.join(seqs)
JoinWith(sep, seqs) ==
    Concat([i \in 1..Len(seqs) |-> IF i = 1 THEN seqs[i] ELSE sep \o seqs[i]])

\* s.startswith(p)
StartsWith(s, p) == Len(s) >= Len(p) /\ SubSeq(s, 1, Len(p)) = p

\* s.endswith(p)
EndsWith(s, p) == Len(s) >= Len(p) /\ SubSeq(s, Len(s) - Len(p) + 1, Len(s)) = p

\* sub occurs in s at position i
OccursAt(s, sub, i) == i + Len(sub) - 1 <= Len(s) /\ SubSeq(s, i, i + Len(sub) - 1) = sub

\* sub in s
Contains(s, sub) == \E i \in 1..(Len(s) + 1) : OccursAt(s, sub, i)

\* s.rfind(c) as a 1-based index, 0 when c is absent
RFind(s, c) == IF \E i \in 1..Len(s) : s[i] = c
               THEN CHOOSE i \in 1..Len(s) : s[i] = c /\ \A j \in (i + 1)..Len(s) : s[j] # c
               ELSE 0

\* the k-th smallest element of a set of numbers
Nth(P, k) == CHOOSE p \in P : Cardinality({q \in P : q < p}) = k - 1

\* s.split(c)
SplitOn(s, c) ==
    LET P == {i \in 1..Len(s) : s[i] = c}
        n == Cardinality(P)
        lo(k) == IF k = 1 THEN 1 ELSE Nth(P, k - 1) + 1
        hi(k) == IF k = n + 1 THEN Len(s) ELSE Nth(P, k) - 1
    IN  [k \in 1..(n + 1) |-> Slice(s, lo(k), hi(k))]

RECURSIVE SeqSum(_)
\* sum(s), by halves
SeqSum(s) ==
    IF Len(s) = 0 THEN 0
    ELSE IF Len(s) = 1 THEN s[1]
    ELSE LET h == Len(s) \div 2
         IN  SeqSum(SubSeq(s, 1, h)) + SeqSum(SubSeq(s, h + 1, Len(s)))

\* The characters the model's texts are written in, with their ASCII codes.
Chars == <<" ","\t","\n","-",".",":","/","_","*","?","=",",",";",
           "(",")","{","}","[","]","+","<",">","&","|","!","\"",
           "0","1","2","3","4","5","6","7","8","9","a","b","c",
           "d","e","f","g","h","i","j","k","l","m","n","o","p",
           "q","r","s","t","u","v","w","x","y","z","A","B","C",
           "D","E","F","G","H","I","J","K","L","M","N","O","P",
           "Q","R","S","T","U","V","W","X","Y","Z","\\">>

Codes == <<32,9,10,45,46,58,47,95,42,63,61,44,59,
           40,41,123,125,91,93,43,60,62,38,124,33,34,
           48,49,50,51,52,53,54,55,56,57,97,98,99,
           100,101,102,103,104,105,106,107,108,109,110,111,112,
           113,114,115,116,117,118,119,120,121,122,65,66,67,
           68,69,70,71,72,73,74,75,76,77,78,79,80,
           81,82,83,84,85,86,87,88,89,90,92>>

CharSet == Range(Chars)

Ord == [c \in CharSet |-> Codes[CHOOSE i \in 1..Len(Chars) : Chars[i] = c]]

\* str.encode("utf-8"): every character of the model is ASCII, one byte each
Encode(text) == [i \in 1..Len(text) |-> Ord[text[i]]]

\* bytes.decode("utf-8", errors="ignore"): a byte that is no character is dropped
Decode(bytes) ==
    LET valid == SelectSeq(bytes, LAMBDA b : \E c \in CharSet : Ord[c] = b)
    IN  [i \in 1..Len(valid) |-> CHOOSE c \in CharSet : Ord[c] = valid[i]]

\* str.lower() of one character
LowerChar(c) == IF c \in CharSet /\ Ord[c] >= 65 /\ Ord[c] <= 90
                THEN CHOOSE d \in CharSet : Ord[d] = Ord[c] + 32
                ELSE c

\* str.lower()
Lower(text) == [i \in 1..Len(text) |-> LowerChar(text[i])]

DigitChars == <<"0","1","2","3","4","5","6","7","8","9">>

RECURSIVE Digits(_)
\* str(n) for a natural number n
Digits(n) == IF n < 10 THEN <<DigitChars[n + 1]>>
             ELSE Digits(n \div 10) \o <<DigitChars[(n % 10) + 1]>>

(***************************************************************************)
(* os.path on POSIX paths.                                                 *)
(***************************************************************************)
RECURSIVE NormParts(_, _)
\* posixpath.normpath's loop over the components: "" and "." are dropped, ".."
\* pops a component, or stays when there is none to pop (relative path)
NormParts(parts, acc) ==
    IF parts = << >> THEN acc
    ELSE LET p == Head(parts)
         IN  IF p = << >> \/ p = <<".">> THEN NormParts(Tail(parts), acc)
             ELSE IF p # <<".", ".">> THEN NormParts(Tail(parts), Append(acc, p))
             ELSE IF acc # << >> /\ acc[Len(acc)] # <<".", ".">>
                  THEN NormParts(Tail(parts), Slice(acc, 1, Len(acc) - 1))
             ELSE NormParts(Tail(parts), Append(acc, p))

\* os.path.normpath of a relative path
normpath(path) ==
    IF path = << >> THEN <<".">>
    ELSE LET comps == NormParts(SplitOn(path, "/"), << >>)
         IN  IF comps = << >> THEN <<".">> ELSE JoinWith(<<"/">>, comps)

\* os.path.join(a, b): an absolute b discards a
join(a, b) == IF a = << >> \/ (b # << >> /\ b[1] = "/") THEN b
              ELSE IF a[Len(a)] = "/" THEN a \o b
              ELSE a \o <<"/">> \o b

\* os.path.basename
basename(path) == Slice(path, RFind(path, "/") + 1, Len(path))

\* os.path.splitext(path)[1]: the text from the last dot of the last component,
\* unless that dot is one of the component's leading dots
splitext_ext(path) ==
    LET sepIndex == RFind(path, "/")
        dotIndex == RFind(path, ".")
    IN  IF dotIndex > sepIndex
           /\ \E k \in (sepIndex + 1)..(dotIndex - 1) : path[k] # "."
        THEN Slice(path, dotIndex, Len(path))
        ELSE << >>

(***************************************************************************)
(* Glob matching: pack.py _match_glob, _should_exclude, _should_include.   *)
(* A regular expression is a sequence of tokens, each token the text of    *)
(* one regex element: an escaped character, a plain character, or one of   *)
(* the groups the replacements put in.                                     *)
(***************************************************************************)
\* the characters of the model that re.escape puts a backslash before
EscapedChars ==
    {"*", "?", ".", "-", " ", "\t", "\n", "&", "(", ")", "+", "[", "]", "{", "|", "}", "\\"}

\* re.escape
re_escape(text) == [i \in 1..Len(text) |->
                       IF text[i] \in EscapedChars THEN "\\" \o text[i] ELSE text[i]]

\* the first position at or after from where old occurs in s, 0 when there is none
NextOcc(s, old, from) ==
    LET P == {i \in from..(Len(s) - Len(old) + 1) : OccursAt(s, old, i)}
    IN  IF P = {} THEN 0 ELSE CHOOSE i \in P : \A j \in P : i <= j

RECURSIVE ReplaceFrom(_, _, _, _)
\* s[from..] with the occurrences of old replaced, leftmost first, non-overlapping
ReplaceFrom(s, old, new, from) ==
    LET p == NextOcc(s, old, from)
    IN  IF p = 0 THEN Slice(s, from, Len(s))
        ELSE Slice(s, from, p - 1) \o new \o ReplaceFrom(s, old, new, p + Len(old))

\* str.replace(old, new), on a text or on a token sequence
Replace(s, old, new) == ReplaceFrom(s, old, new, 1)

\* the regex _match_glob builds from a normalised pattern
glob_regex(pattern) ==
    LET r0 == re_escape(pattern)
        r1 == Replace(r0, <<"\\*", "\\*", "/">>, <<"(?:.*/)?">>)
        r2 == Replace(r1, <<"/", "\\*", "\\*", "/">>, <<"/", "(?:.*/)?">>)
        r3 == Replace(r2, <<"\\*", "\\*">>, <<".*">>)
        r4 == Replace(r3, <<"\\*">>, <<"[^/]*">>)
    IN  Replace(r4, <<"\\?">>, <<"[^/]">>)

\* the character a one-character regex token stands for
TokenChar(tok) == IF \E c \in EscapedChars : tok = "\\" \o c
                  THEN CHOOSE c \in EscapedChars : tok = "\\" \o c
                  ELSE tok

RECURSIVE re_match(_, _, _, _)
\* re.compile("^" + regex + "$").match(path), from token i and character j on
re_match(regex, i, path, j) ==
    IF i > Len(regex) THEN j = Len(path) + 1
    ELSE LET tok == regex[i]
         IN  IF tok = "(?:.*/)?"
             THEN \/ re_match(regex, i + 1, path, j)
                  \/ \E k \in j..Len(path) :
                        path[k] = "/" /\ re_match(regex, i + 1, path, k + 1)
             ELSE IF tok = ".*"
             THEN \E k \in j..(Len(path) + 1) : re_match(regex, i + 1, path, k)
             ELSE IF tok = "[^/]*"
             THEN \E k \in j..(Len(path) + 1) :
                        /\ \A m \in j..(k - 1) : path[m] # "/"
                        /\ re_match(regex, i + 1, path, k)
             ELSE IF tok = "[^/]"
             THEN j <= Len(path) /\ path[j] # "/" /\ re_match(regex, i + 1, path, j + 1)
             ELSE j <= Len(path) /\ path[j] = TokenChar(tok)
                  /\ re_match(regex, i + 1, path, j + 1)

\* pack.py _match_glob
_match_glob(pattern, path) ==
    LET pat0 == normpath(pattern)
        pth0 == normpath(path)
        pattern_ext == splitext_ext(pat0)
        path_ext == splitext_ext(pth0)
        both == pattern_ext # << >> /\ path_ext # << >>
        pat == IF both
               THEN Slice(pat0, 1, Len(pat0) - Len(pattern_ext)) \o Lower(pattern_ext)
               ELSE pat0
        pth == IF both
               THEN Slice(pth0, 1, Len(pth0) - Len(path_ext)) \o Lower(path_ext)
               ELSE pth0
    IN  re_match(glob_regex(pat), 1, pth, 1)

\* every pattern is tested against the whole relative path
whole_path(pat, rel_path) == rel_path

\* the text a pattern is tested against: the final segment for a pattern with
\* no "/" and no "\\", the whole relative path otherwise
glob_target(pat, rel_path) ==
    IF "/" \notin Range(pat) /\ "\\" \notin Range(pat) THEN basename(rel_path) ELSE rel_path

\* pack.py _should_exclude
_should_exclude(rel_path, exclude) ==
    \E i \in 1..Len(exclude) : _match_glob(exclude[i], glob_target(exclude[i], rel_path))

\* pack.py _should_include
_should_include(rel_path, include) ==
    \/ include = << >>
    \/ \E i \in 1..Len(include) : _match_glob(include[i], glob_target(include[i], rel_path))

(***************************************************************************)
(* PackConfig and apply_defaults.  None and the empty list are both the    *)
(* empty sequence (the code treats them alike); index_depth None is        *)
(* NoDepth; index_output None is the empty path.                           *)
(***************************************************************************)
NoDepth == 0 - 1

default_excludes ==
    << <<"*","*","/",".","g","i","t","/","*","*">>,
       <<"*","*","/","n","o","d","e","_","m","o","d","u","l","e","s","/","*","*">>,
       <<"*","*","/","v","e","n","v","/","*","*">>,
       <<"*","*","/","_","_","p","y","c","a","c","h","e","_","_","/","*","*">>,
       <<"*","*","/","b","i","n","/","*","*">> >>

\* the dataclass defaults of PackConfig
PackConfig ==
    [include_globs |-> << >>, exclude_globs |-> << >>, verbose |-> FALSE,
     compress |-> FALSE, max_compress |-> FALSE, gzip_out |-> FALSE,
     base64_out |-> FALSE, write_index |-> FALSE, index_only |-> FALSE,
     index_style |-> "flat", index_output |-> << >>, index_include |-> << >>,
     index_depth |-> NoDepth]

\* apply_defaults up to its check: the exclude list gets the default denials in front
merge_excludes(c) ==
    [c EXCEPT !.exclude_globs = IF @ = << >> THEN default_excludes
                                ELSE default_excludes \o @]

\* an apply_defaults that never raises
never_raises(c) == FALSE

\* apply_defaults raises ValueError("--base64 requires --gzip")
config_error(c) == c.base64_out /\ ~c.gzip_out

\* apply_defaults when it returns
apply_defaults(c) ==
    [merge_excludes(c) EXCEPT !.index_style = IF @ \in {"flat", "tree", "json"}
                                              THEN @ ELSE "flat"]

(***************************************************************************)
(* The directory walk.  A directory is a function from the relative paths  *)
(* of its files to their text; a listing returns names in the fixed order  *)
(* of Candidates and SearchCandidates (the order the file system lists     *)
(* them in).                                                               *)
(***************************************************************************)
Candidates ==
    << <<"a","/","k","e","e","p",".","t","x","t">>,
       <<"a","/","b",".","l","o","g">>,
       <<"b","i","n","/","t",".","j","s">>,
       <<"b","i","n","/","s","u","b","/","x",".","t","x","t">>,
       <<"R",".","m","d">> >>

\* the files a searched directory may hold
SearchCandidates ==
    <<<<"f", "o", "o", ".", "m", "d">>,
      <<"b", "a", "r", "_", "b", "a", "z", ".", "m", "d">>,
      <<"x", ".", "m", "d">>,
      <<"d", "i", "s", "t", "/", "f", "o", "o", ".", "m", "d">>,
      <<"f", "o", "o", ".", "j", "s", "o", "n">>,
      <<"a", ".", "p", "y">>>>

\* the files of directory t, in listing order
TreeFiles(t) == SelectSeq(Candidates \o SearchCandidates, LAMBDA p : p \in DOMAIN t)

\* path p lies under directory d ("" is the root)
Under(p, d) == d = << >> \/ StartsWith(p, d \o <<"/">>)

\* p relative to the directory d it lies under
RelTo(p, d) == IF d = << >> THEN p ELSE Slice(p, Len(d) + 2, Len(p))

RECURSIVE Dedup(_, _)
\* s without repeated elements, first occurrences kept
Dedup(s, seen) ==
    IF s = << >> THEN << >>
    ELSE IF Head(s) \in seen THEN Dedup(Tail(s), seen)
    ELSE <<Head(s)>> \o Dedup(Tail(s), seen \cup {Head(s)})

\* the file names os.walk lists in directory d
walk_files(t, d) ==
    LET here == SelectSeq(TreeFiles(t), LAMBDA p : Under(p, d) /\ "/" \notin Range(RelTo(p, d)))
    IN  [i \in 1..Len(here) |-> RelTo(here[i], d)]

\* the subdirectory names os.walk lists in directory d
walk_dirs(t, d) ==
    LET below == SelectSeq(TreeFiles(t), LAMBDA p : Under(p, d) /\ "/" \in Range(RelTo(p, d)))
    IN  Dedup([i \in 1..Len(below) |-> Head(SplitOn(RelTo(below[i], d), "/"))], {})

\* the subdirectories of d that the pruning loop removes from dirs
pruned_dirs(d, dirs, exclude) ==
    SelectSeq(dirs, LAMBDA n : _should_exclude(normpath(join(d, n)), exclude))

\* one directory of the walk: the subdirectories pruned, those left and the files
walk_step(t, d, dirs, pruned) ==
    [root |-> d, pruned |-> pruned,
     dirs |-> SelectSeq(dirs, LAMBDA n : n \notin Range(pruned)),
     files |-> walk_files(t, d)]

RECURSIVE os_walk(_, _, _)

RECURSIVE walk_below(_, _, _)
\* the walk below a visited directory: into every subdirectory left in dirs
walk_below(t, step, exclude) ==
    <<step>> \o Concat([i \in 1..Len(step.dirs) |->
                          os_walk(t, join(step.root, step.dirs[i]), exclude)])

\* the walk from d on, once its subdirectories are listed
walk_listed(t, d, dirs, exclude) ==
    walk_below(t, walk_step(t, d, dirs, pruned_dirs(d, dirs, exclude)), exclude)

\* the directories pack_directory's loop over os.walk visits, top-down, each
\* with the subdirectories it pruned, those it kept and its file names
os_walk(t, d, exclude) == walk_listed(t, d, walk_dirs(t, d), exclude)

\* the relative paths of the files the walk reaches, in visiting order
walked_files(walk) ==
    Concat([i \in 1..Len(walk) |->
              [j \in 1..Len(walk[i].files) |-> normpath(join(walk[i].root, walk[i].files[j]))]])

(***************************************************************************)
(* The content transform: pack.py _compress_text.                          *)
(***************************************************************************)
\* str.split()'s white space, among the characters of the model
WhiteSpace == {" ", "\t", "\n"}

\* str.split(): the maximal runs of non-blank characters
SplitWords(text) ==
    LET starts == {i \in 1..Len(text) :
                      text[i] \notin WhiteSpace /\ (i = 1 \/ text[i - 1] \in WhiteSpace)}
        stop(i) == IF \E j \in i..Len(text) : text[j] \in WhiteSpace
                   THEN (CHOOSE j \in i..Len(text) :
                            text[j] \in WhiteSpace
                            /\ \A m \in i..(j - 1) : text[m] \notin WhiteSpace) - 1
                   ELSE Len(text)
    IN  [k \in 1..Cardinality(starts) |-> Slice(text, Nth(starts, k), stop(Nth(starts, k)))]

RECURSIVE strip_line_from(_, _)
\* re.sub(r"//.*", "", text) from position from on: each // goes with the rest
\* of its line
strip_line_from(text, from) ==
    LET p == NextOcc(text, <<"/", "/">>, from)
        nl == NextOcc(text, <<"\n">>, p)
    IN  IF p = 0 THEN Slice(text, from, Len(text))
        ELSE IF nl = 0 THEN Slice(text, from, p - 1)
        ELSE Slice(text, from, p - 1) \o strip_line_from(text, nl)

RECURSIVE strip_block_from(_, _)
\* re.sub(r"(?s)/\*.*?\*/", "", text) from position from on: each /* goes with
\* everything up to the first */ after it; a /* that is never closed stays
strip_block_from(text, from) ==
    LET opens == {p \in from..Len(text) :
                     OccursAt(text, <<"/", "*">>, p) /\ NextOcc(text, <<"*", "/">>, p + 2) # 0}
        p == CHOOSE q \in opens : \A r \in opens : q <= r
    IN  IF opens = {} THEN Slice(text, from, Len(text))
        ELSE Slice(text, from, p - 1)
             \o strip_block_from(text, NextOcc(text, <<"*", "/">>, p + 2) + 2)

symbols == <<".", ",", ":", ";", ")", "(", "{", "}", "[", "]", "+", "-", "*", "/",
             "=", "<", ">", "&", "|", "!", "?">>

\* one round of the loop over symbols: the blanks around sym are removed
squeeze_symbol(text, sym) ==
    Replace(Replace(Replace(text, <<" ", sym, " ">>, <<sym>>), <<" ", sym>>, <<sym>>),
            <<sym, " ">>, <<sym>>)

RECURSIVE squeeze_symbols(_, _)
\* the loop over symbols, from the i-th symbol on
squeeze_symbols(text, i) ==
    IF i > Len(symbols) THEN text
    ELSE Only({squeeze_symbols(next, i + 1) : next \in {squeeze_symbol(text, symbols[i])}})

\* pack.py _compress_text
_compress_text(text, aggressive) ==
    LET stripped == IF aggressive
                    THEN strip_block_from(strip_line_from(text, 1), 1)
                    ELSE text
        flat == [i \in 1..Len(stripped) |-> IF stripped[i] = "\n" THEN " " ELSE stripped[i]]
    IN  squeeze_symbols(JoinWith(<<" ">>, SplitWords(flat)), 1)

(***************************************************************************)
(* The index renderings: pack.py _build_index_flat, _build_index_tree.     *)
(***************************************************************************)
\* a < b for Python strings: a is a proper prefix of b, or the first
\* character they differ in has the smaller code in a
LexLess(a, b) ==
    LET n == Min2(Len(a), Len(b))
        D == {i \in 1..n : a[i] # b[i]}
    IN  IF D = {} THEN Len(a) < Len(b)
        ELSE LET i == CHOOSE k \in D : \A j \in D : k <= j
             IN  Ord[a[i]] < Ord[b[i]]

RECURSIVE SortTexts(_)
\* sorted(S) for a set S of texts
SortTexts(S) ==
    IF S = {} THEN << >>
    ELSE LET least == CHOOSE x \in S : \A y \in S \ {x} : LexLess(x, y)
         IN  <<least>> \o SortTexts(S \ {least})

\* content.count("\n") + (1 if content and not content.endswith("\n") else 0)
line_count(content) ==
    Cardinality({i \in 1..Len(content) : content[i] = "\n"})
    + (IF content # << >> /\ content[Len(content)] # "\n" THEN 1 ELSE 0)

\* the size, lines and ext entries of a processed file's meta
file_meta(rel_path, content) ==
    [size |-> Len(Encode(content)), lines |-> line_count(content),
     ext |-> splitext_ext(rel_path)]

\* the " \t"-joined metrics that follow a name on an index line
metric_parts(meta, include) ==
    (IF "size" \in Range(include)
     THEN <<" ", "\t", "s", "i", "z", "e", "=">> \o Digits(meta.size) ELSE << >>)
    \o (IF "lines" \in Range(include)
        THEN <<" ", "\t", "l", "i", "n", "e", "s", "=">> \o Digits(meta.lines)
        ELSE << >>)

\* pack.py _build_index_flat; files is a sequence of [rel, meta]
_build_index_flat(files, include) ==
    JoinWith(<<"\n">>, [i \in 1..Len(files) |->
                           files[i].rel \o metric_parts(files[i].meta, include)])
    \o <<"\n">>

\* the names in the node of the directory tree that the components pre lead to
node_keys(files, pre) ==
    {SplitOn(files[i].rel, "/")[Len(pre) + 1] :
        i \in {j \in 1..Len(files) :
                 LET parts == SplitOn(files[j].rel, "/")
                 IN  Len(parts) > Len(pre) /\ SubSeq(parts, 1, Len(pre)) = pre}}

\* the entries whose path is exactly the components parts (the node's "__file__")
node_file(files, parts) ==
    {i \in 1..Len(files) : SplitOn(files[i].rel, "/") = parts}

RECURSIVE render(_, _, _, _, _, _)
\* _build_index_tree's render(node, prefix, level), the node given by its components
render(files, include, depth, pre, prefix, level) ==
    IF depth # NoDepth /\ level >= depth THEN << >>
    ELSE LET keys == SortTexts(node_keys(files, pre))
             line(k) ==
                 IF node_file(files, Append(pre, k)) = {}
                 THEN <<prefix \o k \o <<"/">> >>
                      \o render(files, include, depth, Append(pre, k),
                                prefix \o <<" ", " ">>, level + 1)
                 ELSE LET i == CHOOSE j \in node_file(files, Append(pre, k)) : TRUE
                      IN  <<prefix \o k \o metric_parts(files[i].meta, include)>>
         IN  Concat([n \in 1..Len(keys) |-> line(keys[n])])

\* pack.py _build_index_tree
_build_index_tree(files, include, depth) ==
    JoinWith(<<"\n">>, render(files, include, depth, << >>, << >>, 0)) \o <<"\n">>

\* os.path.abspath(cfg.input_dir): the packed directory
InputRoot == <<"/", "r">>

\* one object of the "files" array of the JSON index
json_file_entry(f) ==
    <<"\n"," "," "," "," ","{","\n"," "," "," "," "," "," ","\"","p","a","t","h","\"",":"," ","\"">>
    \o f.rel
    \o <<"\"",",","\n"," "," "," "," "," "," ","\"","s","i","z","e","\"",":"," ">>
    \o Digits(f.meta.size)
    \o <<",","\n"," "," "," "," "," "," ","\"","l","i","n","e","s","\"",":"," ">>
    \o Digits(f.meta.lines)
    \o <<",","\n"," "," "," "," "," "," ","\"","e","x","t","\"",":"," ">>
    \o (IF f.meta.ext = << >> THEN <<"n","u","l","l">>
        ELSE <<"\"">> \o f.meta.ext \o <<"\"">>)
    \o <<"\n"," "," "," "," ","}">>

\* the by_ext key of a file: its lower-cased extension, or "(none)"
ext_key(rel) == IF splitext_ext(rel) = << >> THEN <<"(","n","o","n","e",")">>
                ELSE Lower(splitext_ext(rel))

\* pack.py _build_index_json (json.dumps with indent=2; no text of the model
\* needs a JSON escape)
_build_index_json(files, root_dir) ==
    LET exts == Dedup([i \in 1..Len(files) |-> ext_key(files[i].rel)], {})
        count(e) == Cardinality({i \in 1..Len(files) : ext_key(files[i].rel) = e})
        ext_entry(e) == <<"\n"," "," "," "," "," "," ","\"">> \o e \o <<"\"",":"," ">>
                        \o Digits(count(e))
    IN  <<"{","\n"," "," ","\"","s","c","h","e","m","a","_","v","e","r","s","i","o","n","\"",":"," ","\"","1","\"",",","\n"," "," ","\"","r","o","o","t","\"",":"," ","\"">>
        \o root_dir
        \o <<"\"",",","\n"," "," ","\"","f","i","l","e","s","\"",":"," ","[">>
        \o (IF files = << >> THEN << >>
            ELSE JoinWith(<<",">>, [i \in 1..Len(files) |-> json_file_entry(files[i])])
                 \o <<"\n"," "," ">>)
        \o <<"]",",","\n"," "," ","\"","t","o","t","a","l","s","\"",":"," ","{","\n"," "," "," "," ","\"","f","i","l","e","s","\"",":"," ">>
        \o Digits(Len(files))
        \o <<",","\n"," "," "," "," ","\"","b","y","t","e","s","\"",":"," ">>
        \o Digits(SeqSum([i \in 1..Len(files) |-> files[i].meta.size]))
        \o <<",","\n"," "," "," "," ","\"","b","y","_","e","x","t","\"",":"," ","{">>
        \o (IF exts = << >> THEN << >>
            ELSE JoinWith(<<",">>, [i \in 1..Len(exts) |-> ext_entry(exts[i])])
                 \o <<"\n"," "," "," "," ">>)
        \o <<"}","\n"," "," ","}","\n","}","\n">>

(***************************************************************************)
(* The output envelope.  The gzip member carries the real header (magic,   *)
(* deflate, no flags, MTIME, XFL, OS) and ISIZE; its DEFLATE body is       *)
(* written as one stored block and its CRC-32 as the byte sum, which keeps *)
(* what the writer's callers can observe: the stream is a function of the  *)
(* payload and of the second it was written in, and gunzip inverts it.     *)
(***************************************************************************)
\* n as four little-endian bytes
LE32(n) == <<n % 256, (n \div 256) % 256, (n \div 65536) % 256, (n \div 16777216) % 256>>

\* the value LE32 encodes
FromLE(b) == b[1] + 256 * b[2] + 65536 * b[3] + 16777216 * b[4]

\* gzip.GzipFile(fileobj, mode="wb").write(raw) at wall-clock second mtime
gzip_compress(raw, mtime) ==
    <<31, 139, 8, 0>> \o LE32(mtime) \o <<2, 255>>
    \o <<1, Len(raw) % 256, (Len(raw) \div 256) % 256,
         255 - (Len(raw) % 256), 255 - ((Len(raw) \div 256) % 256)>>
    \o raw
    \o LE32(SeqSum(raw)) \o LE32(Len(raw))

\* gzip.decompress: the payload, or <<-1>> for a stream that is no gzip member
gzip_decompress(gz) ==
    IF Len(gz) >= 23 /\ SubSeq(gz, 1, 4) = <<31, 139, 8, 0>>
       /\ Len(gz) = 23 + FromLE(SubSeq(gz, Len(gz) - 3, Len(gz)))
       /\ FromLE(SubSeq(gz, Len(gz) - 7, Len(gz) - 4)) = SeqSum(Slice(gz, 16, Len(gz) - 8))
    THEN Slice(gz, 16, Len(gz) - 8)
    ELSE <<0 - 1>>

\* the ASCII code of base64 digit v
b64_digit(v) == IF v < 26 THEN 65 + v
                ELSE IF v < 52 THEN 71 + v
                ELSE IF v < 62 THEN v - 4
                ELSE IF v = 62 THEN 43 ELSE 47

\* the value of the base64 digit with ASCII code d
b64_value(d) == IF d >= 65 /\ d <= 90 THEN d - 65
                ELSE IF d >= 97 /\ d <= 122 THEN d - 71
                ELSE IF d >= 48 /\ d <= 57 THEN d + 4
                ELSE IF d = 43 THEN 62 ELSE 63

\* base64.b64encode: three bytes give four digits, the last group is padded with =
b64encode(b) ==
    LET n == Len(b)
        byte(i) == IF i <= n THEN b[i] ELSE 0
        digit(k) ==
            LET g == 3 * ((k - 1) \div 4)
                b1 == byte(g + 1)
                b2 == byte(g + 2)
                b3 == byte(g + 3)
                j == (k - 1) % 4
            IN  IF j = 0 THEN b64_digit(b1 \div 4)
                ELSE IF j = 1 THEN b64_digit((b1 % 4) * 16 + b2 \div 16)
                ELSE IF j = 2 THEN (IF g + 2 > n THEN 61
                                    ELSE b64_digit((b2 % 16) * 4 + b3 \div 64))
                ELSE IF g + 3 > n THEN 61 ELSE b64_digit(b3 % 64)
    IN  [k \in 1..(4 * ((n + 2) \div 3)) |-> digit(k)]

\* base64.b64decode of a padded base64 text
b64decode(d) ==
    LET groups == Len(d) \div 4
        pad == IF groups = 0 THEN 0
               ELSE IF d[4 * groups - 1] = 61 THEN 2
               ELSE IF d[4 * groups] = 61 THEN 1 ELSE 0
        val(k) == IF d[k] = 61 THEN 0 ELSE b64_value(d[k])
        byte(i) ==
            LET g == 4 * ((i - 1) \div 3)
                j == (i - 1) % 3
            IN  IF j = 0 THEN val(g + 1) * 4 + val(g + 2) \div 16
                ELSE IF j = 1 THEN (val(g + 2) % 16) * 16 + val(g + 3) \div 4
                ELSE (val(g + 3) % 4) * 64 + val(g + 4)
    IN  [i \in 1..(3 * groups - pad) |-> byte(i)]

(***************************************************************************)
(* pack.py pack_directory.                                                 *)
(***************************************************************************)
START_PFX == <<"-","-","-"," ","S","T","A","R","T"," ","O","F"," ","F","I","L","E",":"," ">>

END_PFX == <<"-","-","-"," ","E","N","D"," ","O","F"," ","F","I","L","E",":"," ">>

MARK_SFX == <<" ","-","-","-">>

INDEX_START == <<"-","-","-"," ","F","I","L","E"," ","I","N","D","E","X"," ","S","T","A","R","T"," ","-","-","-">>

INDEX_END == <<"-","-","-"," ","F","I","L","E"," ","I","N","D","E","X"," ","E","N","D"," ","-","-","-">>

\* a file that does not exist
NoFile == <<0 - 1>>

\* cfg.write_index or cfg.index_only or cfg.index_output
want_index(c) == c.write_index \/ c.index_only \/ c.index_output # << >>

\* a filter in which an include match is enough
include_wins(c, rel_path) == _should_include(rel_path, c.include_globs)

\* the filter of the file loop: a file that fails it is skipped
passes_filters(c, rel_path) ==
    ~_should_exclude(rel_path, c.exclude_globs) /\ _should_include(rel_path, c.include_globs)

\* start_sep + content + end_sep for one processed file
file_chunk(c, rel_path, content) ==
    IF c.compress
    THEN START_PFX \o rel_path \o MARK_SFX \o <<" ">>
         \o _compress_text(content, c.max_compress)
         \o <<" ">> \o END_PFX \o rel_path \o MARK_SFX \o <<" ">>
    ELSE START_PFX \o rel_path \o MARK_SFX \o <<"\n">>
         \o content
         \o <<"\n">> \o END_PFX \o rel_path \o MARK_SFX \o <<"\n", "\n">>

\* what the file loop writes to buf for one processed file
written_chunk(c, rel_path, content) ==
    IF c.index_only THEN << >> ELSE file_chunk(c, rel_path, content)

\* index_files.sort(key=lambda x: x[0]); the paths are distinct
sort_index(files) ==
    LET order == SortTexts({files[i].rel : i \in 1..Len(files)})
    IN  [n \in 1..Len(order) |->
            files[CHOOSE i \in 1..Len(files) : files[i].rel = order[n]]]

\* the rendered index in the configured style
render_index(c, files) ==
    IF c.index_style = "json" THEN _build_index_json(files, InputRoot)
    ELSE IF c.index_style = "tree"
         THEN _build_index_tree(files, c.index_include, c.index_depth)
    ELSE _build_index_flat(files, c.index_include)

\* the text that becomes raw_bytes
bundle_data(c, buf, index_text) ==
    IF c.index_only THEN << >>
    ELSE IF index_text # << >> /\ c.index_output = << >>
         THEN INDEX_START \o <<"\n">> \o index_text \o INDEX_END \o <<"\n", "\n">> \o buf
    ELSE buf

\* an envelope with the stages the other way round: base64 first, gzip second
base64_then_gzip(c, raw_bytes, now) ==
    LET b64 == IF c.base64_out THEN b64encode(raw_bytes) ELSE raw_bytes
    IN  IF c.gzip_out THEN gzip_compress(b64, now) ELSE b64

\* the envelope: gzip first, base64 second
envelope(c, raw_bytes, now) ==
    LET gz == IF c.gzip_out THEN gzip_compress(raw_bytes, now) ELSE raw_bytes
    IN  IF c.base64_out THEN b64encode(gz) ELSE gz

\* round(bundle_size / total_bytes, 2) in hundredths, ties to even
ratio_hundredths(bundle_size, total_bytes) ==
    LET q == (100 * bundle_size) \div total_bytes
        r == (100 * bundle_size) % total_bytes
    IN  IF 2 * r > total_bytes \/ (2 * r = total_bytes /\ q % 2 = 1) THEN q + 1 ELSE q

\* the index entries the file loop collects, in visiting order
index_entries(t, c, processed) ==
    IF want_index(c)
    THEN [i \in 1..Len(processed) |->
            [rel |-> processed[i], meta |-> file_meta(processed[i], t[processed[i]])]]
    ELSE << >>

\* the file loop, once the files that pass the filters are known: the lists it
\* fills and the text it writes to buf
file_loop(t, c, walk, seen, processed) ==
    [walk |-> walk, processed |-> processed,
     skipped |-> SelectSeq(seen, LAMBDA p : p \notin Range(processed)),
     index_files |-> index_entries(t, c, processed),
     buf |-> Concat([i \in 1..Len(processed) |->
                       written_chunk(c, processed[i], t[processed[i]])])]

\* the walk and the file loop over the files it reaches
walk_and_loop(t, c, walk, seen) ==
    file_loop(t, c, walk, seen, SelectSeq(seen, LAMBDA p : passes_filters(c, p)))

\* the index step, once index_files is sorted: the rendered index
with_index_text(c, loop, index_files) ==
    [walk |-> loop.walk, processed |-> loop.processed, skipped |-> loop.skipped,
     buf |-> loop.buf, index_files |-> index_files,
     index_text |-> IF want_index(c) THEN render_index(c, index_files) ELSE << >>]

\* the index step
with_index(c, loop) ==
    with_index_text(c, loop, IF want_index(c) THEN sort_index(loop.index_files)
                             ELSE loop.index_files)

\* the stats returned, once the output bytes are known
with_stats(r, data, out_bytes, total_bytes) ==
    [status |-> "ok", walk |-> r.walk, processed |-> r.processed, skipped |-> r.skipped,
     index_files |-> r.index_files, index_text |-> r.index_text, data |-> data,
     out_bytes |-> out_bytes,
     stats |-> [bundle_size |-> Len(out_bytes), files_processed |-> Len(r.processed),
                files_skipped |-> Len(r.skipped), total_bytes |-> total_bytes,
                compression_ratio |-> IF total_bytes > 0
                                      THEN ratio_hundredths(Len(out_bytes), total_bytes)
                                      ELSE 0]]

\* the output step, once the bundle text is known
with_output(c, now, r, data) ==
    with_stats(r, data, envelope(c, Encode(data), now),
               SeqSum([i \in 1..Len(r.index_files) |-> r.index_files[i].meta.size]))

\* the walk of directory t with config c
walk_of(t, c) == os_walk(t, << >>, c.exclude_globs)

\* the part of pack_directory that follows the walk
pack_walked(t, c, now, walk) ==
    LET r == with_index(c, walk_and_loop(t, c, walk, walked_files(walk)))
    IN  with_output(c, now, r, bundle_data(c, r.buf, r.index_text))

\* pack_directory after apply_defaults returned c, on directory t at second now:
\* the walk, the lists it fills, the texts it builds, the bytes it writes, the
\* stats it returns
pack_directory(t, c, now) == pack_walked(t, c, now, walk_of(t, c))

(***************************************************************************)
(* cli.py pack: the command builds a PackConfig from its options, merges   *)
(* it with the config file when one is given, and calls pack_directory.    *)
(* The options that are on the command line, and the fields a config file  *)
(* sets, are functions from field names to values.                         *)
(***************************************************************************)
\* the dataclass defaults of input_dir and output_file, with the other fields
FullPackConfig ==
    [input_dir |-> <<".">>, output_file |-> <<"c", "o", "r", "p", "u", "s", "-", "o", "u", "t", ".", "t", "x", "t">>] @@ PackConfig

\* the values typer gives the options that are not on the command line
CliDefaults ==
    [FullPackConfig EXCEPT !.write_index = TRUE]

\* the PackConfig the command builds from its options
cli_config(given) == given @@ CliDefaults

\* load_config_file raises: apply_defaults refuses the fields of the file
load_error(data) == config_error(data @@ FullPackConfig)

\* load_config_file when it returns: PackConfig(**data), then apply_defaults
load_config_file(data) == apply_defaults(data @@ FullPackConfig)

\* a or b for two texts or two lists
or_else(a, b) == IF a # << >> THEN a ELSE b

\* the PackConfig the command builds when a config file is given: nine fields
\* from the options or else the file, every other field the dataclass default
merge_with_file(c, file_cfg) ==
    [FullPackConfig EXCEPT
        !.input_dir = or_else(c.input_dir, file_cfg.input_dir),
        !.output_file = or_else(c.output_file, file_cfg.output_file),
        !.include_globs = or_else(c.include_globs, file_cfg.include_globs),
        !.exclude_globs = or_else(c.exclude_globs, file_cfg.exclude_globs),
        !.verbose = c.verbose \/ file_cfg.verbose,
        !.compress = c.compress \/ file_cfg.compress,
        !.max_compress = c.max_compress \/ file_cfg.max_compress,
        !.gzip_out = c.gzip_out \/ file_cfg.gzip_out,
        !.base64_out = c.base64_out \/ file_cfg.base64_out]

\* no --config option
NoConfigFile == [exists |-> FALSE, data |-> << >>]

\* the PackConfig the command passes to pack_directory
command_config(given, config_file) ==
    IF config_file.exists
    THEN merge_with_file(cli_config(given), load_config_file(config_file.data))
    ELSE cli_config(given)

(***************************************************************************)
(* sources.py BundleSource.  The offset index is a function from path to   *)
(* <<start_pos, end_pos>>, byte offsets counted from 0.                     *)
(***************************************************************************)
\* the bytes \s matches
SpaceBytes == {32, 9, 10, 11, 12, 13}

\* the lines of a byte stream, each with its newline, and the offset each starts at
raw_lines(b) ==
    LET ends == {i \in 1..Len(b) : b[i] = 10 \/ i = Len(b)}
        first(k) == IF k = 1 THEN 1 ELSE Nth(ends, k - 1) + 1
    IN  [k \in 1..Cardinality(ends) |->
            [offset |-> first(k) - 1, line |-> SubSeq(b, first(k), Nth(ends, k))]]

\* no match of a marker expression
NoMatch == <<0 - 1>>

\* group 1 of ^<prefix>(.+) ---\s*$ matched at the start of a line: the line
\* without its trailing white space ends with " ---", and the longest text
\* between the prefix and such an ending is the group, which is never empty
marker_group(raw_line, prefix) ==
    LET solid == {i \in 1..Len(raw_line) : raw_line[i] \notin SpaceBytes}
        last == IF solid = {} THEN 0 ELSE CHOOSE i \in solid : \A j \in solid : j <= i
        body == Slice(raw_line, 1, last)
    IN  IF /\ Len(body) >= Len(prefix) + 1 + Len(MARK_SFX)
           /\ StartsWith(body, Encode(prefix))
           /\ EndsWith(body, Encode(MARK_SFX))
        THEN Slice(body, Len(prefix) + 1, Len(body) - Len(MARK_SFX))
        ELSE NoMatch

RECURSIVE scan_until_malformed(_, _, _, _, _)
\* a scan that gives up at the first malformed entry
scan_until_malformed(lines, k, current_path, start_pos, index) ==
    IF k > Len(lines) THEN index
    ELSE IF marker_group(lines[k].line, START_PFX) # NoMatch
         THEN IF current_path # NoMatch THEN index
              ELSE scan_until_malformed(lines, k + 1, marker_group(lines[k].line, START_PFX),
                                        lines[k].offset + Len(lines[k].line), index)
    ELSE IF marker_group(lines[k].line, END_PFX) # NoMatch
         THEN IF current_path = NoMatch THEN index
              ELSE scan_until_malformed(lines, k + 1, NoMatch, 0,
                                        (Decode(current_path) :> <<start_pos, lines[k].offset>>)
                                        @@ index)
    ELSE scan_until_malformed(lines, k + 1, current_path, start_pos, index)

\* a span that begins at its START marker line
at_marker(offset, raw_line) == offset

\* start_pos = offset + line_len: a span begins after its START marker line
span_start(offset, raw_line) == offset + Len(raw_line)

RECURSIVE scan_markers(_, _, _, _, _)
\* the loop of _build_index over the raw lines from the k-th on; current_path is
\* kept as the bytes of the group, NoMatch standing for None
scan_markers(lines, k, current_path, start_pos, index) ==
    IF k > Len(lines) THEN index
    ELSE LET raw_line == lines[k].line
             offset == lines[k].offset
             m_start == marker_group(raw_line, START_PFX)
             m_end == marker_group(raw_line, END_PFX)
         IN  IF m_start # NoMatch
             THEN scan_markers(lines, k + 1, m_start, span_start(offset, raw_line), index)
             ELSE IF m_end # NoMatch /\ current_path # NoMatch
             THEN Only({scan_markers(lines, k + 1, NoMatch, 0, filled) :
                         filled \in {(Decode(current_path) :> <<start_pos, offset>>) @@ index}})
             ELSE scan_markers(lines, k + 1, current_path, start_pos, index)

\* str.strip()
strip(text) ==
    LET solid == {i \in 1..Len(text) : text[i] \notin WhiteSpace}
    IN  IF solid = {} THEN << >>
        ELSE Slice(text, CHOOSE i \in solid : \A j \in solid : i <= j,
                         CHOOSE i \in solid : \A j \in solid : j <= i)

\* a fallback that reads no name
no_names(bytes) == << >>

\* the names between the FILE INDEX markers, read when no file marker was found
index_names(bytes) ==
    LET lines == raw_lines(bytes)
        text(k) == Decode(lines[k].line)
        stops == {k \in 1..Len(lines) : StartsWith(text(k), INDEX_END)}
        stop == IF stops = {} THEN Len(lines) + 1 ELSE CHOOSE k \in stops : \A j \in stops : k <= j
        opens == {k \in 1..(stop - 1) : StartsWith(text(k), INDEX_START)}
        open == IF opens = {} THEN stop ELSE CHOOSE k \in opens : \A j \in opens : k <= j
        named == {k \in (open + 1)..(stop - 1) : k \notin opens /\ strip(text(k)) # << >>}
    IN  [n \in 1..Cardinality(named) |-> strip(text(Nth(named, n)))]

\* BundleSource.__init__ and _build_index on a bundle file
BundleSource(bytes) ==
    LET index == scan_markers(raw_lines(bytes), 1, NoMatch, 0, << >>)
    IN  [kind |-> "bundle", _index |-> index,
         _files_only |-> IF DOMAIN index = {} THEN index_names(bytes) ELSE << >>]

\* BundleSource.list_files
bundle_list_files(self) ==
    IF DOMAIN self._index # {} THEN SortTexts(DOMAIN self._index)
    ELSE SortTexts(Range(self._files_only))

\* start and end when they are not given
NoLine == 0 - 1

\* the lines of a text, each with its newline
text_lines(text) ==
    LET ends == {i \in 1..Len(text) : text[i] = "\n" \/ i = Len(text)}
        first(k) == IF k = 1 THEN 1 ELSE Nth(ends, k - 1) + 1
    IN  [k \in 1..Cardinality(ends) |-> SubSeq(text, first(k), Nth(ends, k))]

\* out_lines.append(line), before the rest of the loop
appended(i, rest) == [out_lines |-> <<i>> \o rest.out_lines, read |-> rest.read]

RECURSIVE slice_loop(_, _, _, _)
\* the loop over enumerate(f, start=1) from line i on: a line before start is
\* passed over, the first line that is past end breaks the loop, any other
\* line is appended; out_lines are the numbers of the lines appended, read is
\* the number of the last line the loop took from the file
slice_loop(lines, i, start, end) ==
    IF i > Len(lines) THEN [out_lines |-> << >>, read |-> Len(lines)]
    ELSE IF start # NoLine /\ i < start THEN slice_loop(lines, i + 1, start, end)
    ELSE IF end # NoLine /\ i > end THEN [out_lines |-> << >>, read |-> i]
    ELSE appended(i, slice_loop(lines, i + 1, start, end))

\* "".join(out_lines)
joined_lines(lines, out_lines) == Concat([n \in 1..Len(out_lines) |-> lines[out_lines[n]]])

\* the loop over the lines of the file, and the text it returns
sliced_lines(lines, start, end) ==
    joined_lines(lines, slice_loop(lines, 1, start, end).out_lines)

\* the slicing both sources do: everything when neither bound is given, else
\* the lines the loop appends, counted from 1
line_slice(content, start, end) ==
    IF start = NoLine /\ end = NoLine THEN content
    ELSE sliced_lines(text_lines(content), start, end)

\* the number of the last line get_file takes from the file: f.read() takes
\* them all, the loop stops where it breaks
lines_read(content, start, end) ==
    IF start = NoLine /\ end = NoLine THEN Len(text_lines(content))
    ELSE slice_loop(text_lines(content), 1, start, end).read

\* BundleSource.get_file on the bytes the bundle file holds now
bundle_get_file(self, bytes, path, start, end) ==
    IF path \notin DOMAIN self._index
    THEN [status |-> "FileNotFoundError", value |-> << >>]
    ELSE LET start_pos == self._index[path][1]
             end_pos == self._index[path][2]
             data == Slice(bytes, start_pos + 1, Min2(end_pos, Len(bytes)))
         IN  [status |-> "ok", value |-> line_slice(Decode(data), start, end)]

(***************************************************************************)
(* sources.py DirSource.  The file system is the source root with the      *)
(* files of the directory, and one file outside the root.                  *)
(***************************************************************************)
\* a file outside the source root
OutsidePath == <<"/", "s", ".", "t", "x", "t">>

OutsideText == <<"k", "e", "y">>

IndexJsonName == <<"i", "n", "d", "e", "x", ".", "j", "s", "o", "n">>

\* no index.json in the root
NoIndex == [exists |-> FALSE, paths |-> << >>]

\* the components of a path
components(path) == SelectSeq(SplitOn(path, "/"), LAMBDA c : c # << >>)

\* the files of the file system, by their components
fs_files(t) ==
    [c \in {components(join(InputRoot, p)) : p \in DOMAIN t} \cup {components(OutsidePath)} |->
        IF c = components(OutsidePath) THEN OutsideText
        ELSE t[CHOOSE p \in DOMAIN t : components(join(InputRoot, p)) = c]]

\* the directories of the file system, by their components
fs_dirs(t) ==
    {SubSeq(components(InputRoot), 1, n) : n \in 0..Len(components(InputRoot))}
    \cup UNION {{SubSeq(c, 1, n) : n \in 0..(Len(c) - 1)} : c \in DOMAIN fs_files(t)}

RECURSIVE resolve(_, _, _)
\* the kernel's walk along the components of an absolute path, from directory
\* at on: ".." steps up, "." stays, a name steps into a directory or names the
\* file; the result is the components reached, or an errno
resolve(t, at, rest) ==
    IF rest = << >> THEN [errno |-> "", at |-> at]
    ELSE IF at \notin fs_dirs(t)
         THEN [errno |-> IF at \in DOMAIN fs_files(t) THEN "ENOTDIR" ELSE "ENOENT", at |-> at]
    ELSE IF Head(rest) = <<".">> THEN resolve(t, at, Tail(rest))
    ELSE IF Head(rest) = <<".", ".">>
         THEN resolve(t, Slice(at, 1, Len(at) - 1), Tail(rest))
    ELSE resolve(t, Append(at, Head(rest)), Tail(rest))

\* open(abs_path, "r").read() with errors="ignore"
read_file(t, abs_path) ==
    LET r == resolve(t, << >>, components(abs_path))
    IN  IF r.errno = "ENOTDIR" THEN [status |-> "NotADirectoryError", value |-> << >>]
        ELSE IF r.errno = "ENOENT" THEN [status |-> "FileNotFoundError", value |-> << >>]
        ELSE IF r.at \in fs_dirs(t) THEN [status |-> "IsADirectoryError", value |-> << >>]
        ELSE IF r.at \in DOMAIN fs_files(t)
             THEN [status |-> "ok", value |-> fs_files(t)[r.at]]
        ELSE [status |-> "FileNotFoundError", value |-> << >>]

\* DirSource.__init__ on the root: index_json tells whether the root holds an
\* index.json and gives the "path" entries of its "files"; an empty list falls
\* back to the walk, which then meets index.json too
DirSource(t, index_json) ==
    LET walked == DOMAIN t \cup (IF index_json.exists THEN {IndexJsonName} ELSE {})
    IN  [kind |-> "dir",
         _files |-> IF index_json.exists /\ index_json.paths # << >>
                    THEN SortTexts(Range(index_json.paths))
                    ELSE SortTexts(walked)]

\* DirSource.list_files
dir_list_files(self) == self._files

\* DirSource.get_file
dir_get_file(t, path, start, end) ==
    LET got == read_file(t, join(InputRoot, path))
    IN  IF got.status = "ok"
        THEN [status |-> "ok", value |-> line_slice(got.value, start, end)]
        ELSE got

(***************************************************************************)
(* sources.py search, written twice in the source: DirSource.search and    *)
(* BundleSource.search.  A hit is a FileHit record.                        *)
(***************************************************************************)
\* the characters \w matches, among the characters of the model
WordChars ==
    {c \in CharSet : c = "_" \/ Ord[c] \in (48..57) \cup (65..90) \cup (97..122)}

\* re.findall(r'\b\w+\b', query): the maximal runs of word characters
find_words(query) ==
    LET starts == {i \in 1..Len(query) :
                      query[i] \in WordChars /\ (i = 1 \/ query[i - 1] \notin WordChars)}
        stop(i) == IF \E j \in i..Len(query) : query[j] \notin WordChars
                   THEN (CHOOSE j \in i..Len(query) :
                            query[j] \notin WordChars
                            /\ \A m \in i..(j - 1) : query[m] \in WordChars) - 1
                   ELSE Len(query)
    IN  [k \in 1..Cardinality(starts) |-> Slice(query, Nth(starts, k), stop(Nth(starts, k)))]

\* the tokens of a query, once its words are found: the whole query when it
\* has no word
tokens_or_query(query, words) == IF words = << >> THEN <<query>> ELSE words

\* the tokens search builds its patterns from
query_tokens(query) == tokens_or_query(query, find_words(query))

\* re.compile(re.escape(token), flags).search(line): token occurs in line,
\* letters compared without case under re.IGNORECASE
pattern_search(token, line, case_sensitive) ==
    IF case_sensitive THEN Contains(line, token)
    ELSE Contains(Lower(line), Lower(token))

\* the dataclass FileHit
FileHit(path, line, snippet, score) ==
    [path |-> path, line |-> line, snippet |-> snippet, score |-> score]

\* a sort that leaves the hits as they were encountered
unsorted(results) == results

\* results.sort(key=lambda x: x.score, reverse=True): the sort is stable, so
\* results[i] goes behind every hit of higher score and every earlier hit of
\* the same score
sort_by_score(results) ==
    [k \in 1..Len(results) |->
        results[CHOOSE i \in 1..Len(results) :
                   Cardinality({j \in 1..Len(results) :
                                   \/ results[j].score > results[i].score
                                   \/ results[j].score = results[i].score /\ j < i}) = k - 1]]

\* results[:max_results]; a negative max_results counts from the end
first_results(results, max_results) ==
    IF max_results >= 0 THEN Slice(results, 1, Min2(max_results, Len(results)))
    ELSE Slice(results, 1, Len(results) + max_results)

\* DirSource.search: matches = sum(1 for pattern in patterns if pattern.search(line))
dir_line_matches(tokens, line, case_sensitive) ==
    Cardinality({i \in 1..Len(tokens) : pattern_search(tokens[i], line, case_sensitive)})

\* a score that gives nothing for tokens in the file name
no_filename_matches(filename, tokens) == 0

\* calculate_score of DirSource.search: sum(1 for token in tokens if token.lower() in filename)
dir_filename_matches(filename, tokens) ==
    Cardinality({i \in 1..Len(tokens) : Contains(filename, Lower(tokens[i]))})

\* calculate_score of DirSource.search: the file type priority
dir_file_type(filename) ==
    IF EndsWith(filename, <<".", "m", "d">>) THEN 15
    ELSE IF \E e \in {<<".", "p", "y">>, <<".", "j", "s">>, <<".", "t", "s">>, <<".", "g", "o">>, <<".", "r", "s">>, <<".", "j", "a", "v", "a">>, <<".", "c">>, <<".", "c", "p", "p">>} :
               EndsWith(filename, e) THEN 10
    ELSE IF \E e \in {<<".", "j", "s", "o", "n">>, <<".", "y", "a", "m", "l">>, <<".", "y", "m", "l">>, <<".", "t", "o", "m", "l">>} :
               EndsWith(filename, e) THEN 5
    ELSE 0

\* calculate_score of DirSource.search: the penalty of a noise file, taken once
dir_noise(path_lower) ==
    IF \E noise \in {<<"c", "h", "a", "n", "g", "e", "l", "o", "g">>, <<"p", "a", "c", "k", "a", "g", "e", "-", "l", "o", "c", "k">>, <<"y", "a", "r", "n", ".", "l", "o", "c", "k">>, <<"g", "o", ".", "s", "u", "m">>}
                    \cup {<<".", "m", "i", "n", ".">>, <<"d", "i", "s", "t", "/">>, <<"b", "u", "i", "l", "d", "/">>, <<"n", "o", "d", "e", "_", "m", "o", "d", "u", "l", "e", "s", "/">>} :
          Contains(path_lower, noise)
    THEN 30 ELSE 0

\* calculate_score of DirSource.search, once path_lower and filename are computed
dir_score_of(path_lower, filename, tokens, line_matches) ==
    Max2(line_matches * 10 + dir_filename_matches(filename, tokens) * 20
         + dir_file_type(filename) - dir_noise(path_lower), 0)

\* calculate_score of DirSource.search
dir_calculate_score(path, line_matches, tokens) ==
    dir_score_of(Lower(path), basename(Lower(path)), tokens, line_matches)

\* the hit DirSource.search appends for line i of file rel
dir_hit(rel, i, line, tokens, case_sensitive) ==
    FileHit(rel, i, strip(line),
            dir_calculate_score(rel, dir_line_matches(tokens, line, case_sensitive), tokens))

\* the hits DirSource.search appends for the lines of file rel
dir_line_hits(rel, lines, tokens, case_sensitive) ==
    [n \in 1..Len(lines) |->
        IF dir_line_matches(tokens, lines[n], case_sensitive) > 0
        THEN <<dir_hit(rel, n, lines[n], tokens, case_sensitive)>>
        ELSE << >>]

\* the hits DirSource.search appends for file rel: none when open() raises
dir_file_results(rel, got, tokens, case_sensitive) ==
    IF got.status = "ok"
    THEN Concat(dir_line_hits(rel, text_lines(got.value), tokens, case_sensitive))
    ELSE << >>

\* the loop of DirSource.search over self._files
dir_results(t, self, tokens, case_sensitive) ==
    Concat([k \in 1..Len(self._files) |->
              dir_file_results(self._files[k], read_file(t, join(InputRoot, self._files[k])),
                               tokens, case_sensitive)])

\* DirSource.search
dir_search(t, self, query, max_results, case_sensitive) ==
    first_results(sort_by_score(dir_results(t, self, query_tokens(query), case_sensitive)),
                  max_results)

\* BundleSource.search: matches = sum(1 for pattern in patterns if pattern.search(line))
bundle_line_matches(tokens, line, case_sensitive) ==
    Cardinality({i \in 1..Len(tokens) : pattern_search(tokens[i], line, case_sensitive)})

\* calculate_score of BundleSource.search: sum(1 for token in tokens if token.lower() in filename)
bundle_filename_matches(filename, tokens) ==
    Cardinality({i \in 1..Len(tokens) : Contains(filename, Lower(tokens[i]))})

\* calculate_score of BundleSource.search: the file type priority
bundle_file_type(filename) ==
    IF EndsWith(filename, <<".", "m", "d">>) THEN 15
    ELSE IF \E e \in {<<".", "p", "y">>, <<".", "j", "s">>, <<".", "t", "s">>, <<".", "g", "o">>, <<".", "r", "s">>, <<".", "j", "a", "v", "a">>, <<".", "c">>, <<".", "c", "p", "p">>} :
               EndsWith(filename, e) THEN 10
    ELSE IF \E e \in {<<".", "j", "s", "o", "n">>, <<".", "y", "a", "m", "l">>, <<".", "y", "m", "l">>, <<".", "t", "o", "m", "l">>} :
               EndsWith(filename, e) THEN 5
    ELSE 0

\* calculate_score of BundleSource.search: the penalty of a noise file, taken once
bundle_noise(path_lower) ==
    IF \E noise \in {<<"c", "h", "a", "n", "g", "e", "l", "o", "g">>, <<"p", "a", "c", "k", "a", "g", "e", "-", "l", "o", "c", "k">>, <<"y", "a", "r", "n", ".", "l", "o", "c", "k">>, <<"g", "o", ".", "s", "u", "m">>}
                    \cup {<<".", "m", "i", "n", ".">>, <<"d", "i", "s", "t", "/">>, <<"b", "u", "i", "l", "d", "/">>, <<"n", "o", "d", "e", "_", "m", "o", "d", "u", "l", "e", "s", "/">>} :
          Contains(path_lower, noise)
    THEN 30 ELSE 0

\* calculate_score of BundleSource.search, once path_lower and filename are computed
bundle_score_of(path_lower, filename, tokens, line_matches) ==
    Max2(line_matches * 10 + bundle_filename_matches(filename, tokens) * 20
         + bundle_file_type(filename) - bundle_noise(path_lower), 0)

\* a score that counts the matches on the line only
line_score_only(path, line_matches, tokens) == line_matches * 10

\* calculate_score of BundleSource.search
bundle_calculate_score(path, line_matches, tokens) ==
    bundle_score_of(Lower(path), basename(Lower(path)), tokens, line_matches)

\* the hit BundleSource.search appends for line i of file rel
bundle_hit(rel, i, line, tokens, case_sensitive) ==
    FileHit(rel, i, strip(line),
            bundle_calculate_score(rel, bundle_line_matches(tokens, line, case_sensitive), tokens))

\* the hits BundleSource.search appends for the lines of file rel
bundle_line_hits(rel, lines, tokens, case_sensitive) ==
    [n \in 1..Len(lines) |->
        IF bundle_line_matches(tokens, lines[n], case_sensitive) > 0
        THEN <<bundle_hit(rel, n, lines[n], tokens, case_sensitive)>>
        ELSE << >>]

\* the hits BundleSource.search appends for file rel: none when get_file raises
bundle_file_results(rel, got, tokens, case_sensitive) ==
    IF got.status = "ok"
    THEN Concat(bundle_line_hits(rel, text_lines(got.value), tokens, case_sensitive))
    ELSE << >>

\* the loop of BundleSource.search over self.list_files()
bundle_results(self, bytes, files, tokens, case_sensitive) ==
    Concat([k \in 1..Len(files) |->
              bundle_file_results(files[k], bundle_get_file(self, bytes, files[k], NoLine, NoLine),
                                  tokens, case_sensitive)])

\* BundleSource.search on the bytes the bundle file holds now
bundle_search(self, bytes, query, max_results, case_sensitive) ==
    first_results(sort_by_score(bundle_results(self, bytes, bundle_list_files(self),
                                               query_tokens(query), case_sensitive)),
                  max_results)

(***************************************************************************)
(* capture.py _to_mmss and _vtt_to_text.                                   *)
(***************************************************************************)
\* int(p) raises: p is not a run of digits
not_int(p) == p = << >> \/ \E i \in 1..Len(p) : p[i] \notin Range(DigitChars)

RECURSIVE int_of(_)
\* int(p) for a run of digits
int_of(p) ==
    IF p = << >> THEN 0
    ELSE 10 * int_of(Slice(p, 1, Len(p) - 1))
         + (CHOOSE d \in 0..9 : DigitChars[d + 1] = p[Len(p)])

\* f"{n:02d}"
two_digits(n) == IF n < 10 THEN <<"0">> \o Digits(n) ELSE Digits(n)

\* hours * 3600 + minutes * 60 + seconds for the parts of a time stamp
total_seconds(parts) ==
    IF Len(parts) = 3 THEN int_of(parts[1]) * 3600 + int_of(parts[2]) * 60 + int_of(parts[3])
    ELSE IF Len(parts) = 2 THEN int_of(parts[1]) * 60 + int_of(parts[2])
    ELSE int_of(parts[1])

\* f"{total // 60:02d}:{total % 60:02d}"
mmss_of(total) == two_digits(total \div 60) \o <<":">> \o two_digits(total % 60)

\* capture.py _to_mmss, with the except clause of its caller: the empty text
\* when a part of the time stamp is no number
_to_mmss(ts) ==
    IF \E k \in 1..Len(SplitOn(SplitOn(ts, ".")[1], ":")) :
          not_int(SplitOn(SplitOn(ts, ".")[1], ":")[k])
    THEN << >>
    ELSE mmss_of(total_seconds(SplitOn(SplitOn(ts, ".")[1], ":")))

\* data.splitlines(): the lines without their newline
splitlines(data) ==
    [k \in 1..Len(text_lines(data)) |->
        SelectSeq(text_lines(data)[k], LAMBDA c : c # "\n")]

RECURSIVE sub_tags(_, _)
\* re.sub(r"<[^>]+>", "", t) from position from on: a "<", one character or
\* more that is no ">", and the first ">" after them
sub_tags(t, from) ==
    LET opens == {p \in from..(Len(t) - 2) :
                     t[p] = "<" /\ t[p + 1] # ">" /\ NextOcc(t, <<">">>, p + 2) # 0}
        p == CHOOSE q \in opens : \A r \in opens : q <= r
    IN  IF opens = {} THEN Slice(t, from, Len(t))
        ELSE Slice(t, from, p - 1) \o sub_tags(t, NextOcc(t, <<">">>, p + 2) + 1)

\* re.sub(r"^\w+::", "", t): a leading word followed by two colons goes
sub_prefix(t) ==
    LET word == Cardinality({i \in 1..Len(t) : \A j \in 1..i : t[j] \in WordChars})
    IN  IF word > 0 /\ OccursAt(t, <<":", ":">>, word + 1)
        THEN Slice(t, word + 3, Len(t)) ELSE t

\* re.sub(r"\s+", " ", merged).strip()
one_spaced(merged) == JoinWith(<<" ">>, SplitWords(merged))

\* the inner loop stops at line text_end: the first line from i on that is
\* blank after strip(), or one past the last line
text_end(lines, i) ==
    LET blank == {k \in i..Len(lines) : strip(lines[k]) = << >>}
    IN  IF blank = {} THEN Len(lines) + 1 ELSE CHOOSE k \in blank : \A j \in blank : k <= j

\* the inner loop: each text line without tags and prefix, stripped
cue_texts(lines, i, stop) ==
    [k \in 1..(stop - i) |-> strip(sub_prefix(sub_tags(lines[i + k - 1], 1)))]

ARROW == <<"-", "-", ">">>

\* ts_line.split("-->")[0].strip()
start_of(ts_line) == strip(Slice(ts_line, 1, NextOcc(ts_line, ARROW, 1) - 1))

\* the line a cue appends to out_lines, or none: the start time, a blank, the
\* merged text
cue_line(ts_line, texts) ==
    IF texts # << >> /\ one_spaced(JoinWith(<<" ">>, texts)) # << >>
    THEN << _to_mmss(start_of(ts_line)) \o <<" ">> \o one_spaced(JoinWith(<<" ">>, texts)) >>
    ELSE << >>

\* a line the outer loop passes over: blank, header, NOTE, STYLE, REGION
passed_over(line) ==
    \/ line = << >>
    \/ StartsWith(line, <<"W", "E", "B", "V", "T", "T">>)
    \/ StartsWith(line, <<"N", "O", "T", "E">>)
    \/ StartsWith(line, <<"S", "T", "Y", "L", "E">>)
    \/ StartsWith(line, <<"R", "E", "G", "I", "O", "N">>)

RECURSIVE vtt_loop(_, _)
RECURSIVE vtt_cue(_, _, _, _)
\* the cue whose timing line is line i: its text runs to line stop, the outer
\* loop goes on from there
vtt_cue(lines, i, ts_line, stop) ==
    cue_line(ts_line, cue_texts(lines, i + 1, stop)) \o vtt_loop(lines, stop)

\* the while loop of _vtt_to_text from line i on: the out_lines it appends
vtt_loop(lines, i) ==
    IF i > Len(lines) THEN << >>
    ELSE IF passed_over(strip(lines[i])) THEN vtt_loop(lines, i + 1)
    ELSE IF ~Contains(strip(lines[i]), ARROW) /\ i + 1 <= Len(lines)
            /\ Contains(lines[i + 1], ARROW)
    THEN vtt_cue(lines, i + 1, lines[i + 1], text_end(lines, i + 2))
    ELSE IF Contains(strip(lines[i]), ARROW)
    THEN vtt_cue(lines, i, strip(lines[i]), text_end(lines, i + 1))
    ELSE vtt_loop(lines, i + 1)

\* capture.py _vtt_to_text on a file that exists: the text written to
\* out_txt_path and the number returned
_vtt_to_text(data) ==
    [written |-> JoinWith(<<"\n">>, vtt_loop(splitlines(data), 1)),
     returned |-> Len(vtt_loop(splitlines(data), 1))]

(***************************************************************************)
(* The inputs: the directories that are packed and the configurations.     *)
(***************************************************************************)
\* the text of each candidate file
FileText(p) ==
    IF p = Candidates[1] THEN <<"a"," ","="," ","1","\n">>
    ELSE IF p = Candidates[2] THEN << >>
    ELSE IF p = Candidates[3] THEN <<"j","s">>
    ELSE IF p = Candidates[4] THEN <<"z">>
    ELSE <<"r","\n","s">>

\* the directories: at most MaxFiles of the candidate files
Trees ==
    {[p \in P |-> FileText(p)] :
        P \in {Q \in SUBSET Range(Candidates) : Cardinality(Q) <= MaxFiles}}

\* the path given as index_output
IndexPath == <<"i","d","x">>

\* the configurations that set the file filters
SelectConfigs ==
    {[PackConfig EXCEPT !.include_globs = inc, !.exclude_globs = exc, !.write_index = wi] :
        inc \in {<< >>, << <<"*","*","/","*",".","t","x","t">> >>},
        exc \in {<< >>, << <<"k","e","e","p",".","*">> >>},
        wi \in BOOLEAN}

\* the configurations that set the content transform
TransformConfigs ==
    {[PackConfig EXCEPT !.compress = co, !.max_compress = mx, !.verbose = mx] :
        co \in BOOLEAN, mx \in BOOLEAN}

\* the configurations that set the envelope
EnvelopeConfigs ==
    {[PackConfig EXCEPT !.gzip_out = gz, !.base64_out = b64, !.index_output = io] :
        gz \in BOOLEAN, b64 \in BOOLEAN, io \in {<< >>, IndexPath}}

\* the configurations that set the index
IndexConfigs ==
    {[PackConfig EXCEPT !.write_index = TRUE, !.index_only = only, !.index_style = style,
                        !.index_include = inc] :
        only \in BOOLEAN, style \in {"flat", "tree", "json", "xml"},
        inc \in {<< >>, <<"size", "lines">>}}
    \cup {[PackConfig EXCEPT !.write_index = TRUE, !.index_style = "tree",
                             !.index_include = inc, !.index_depth = 1] :
             inc \in {<< >>, <<"size", "lines">>}}

\* the configurations pack_directory is called with
Configs == SelectConfigs \cup TransformConfigs \cup EnvelopeConfigs \cup IndexConfigs

\* the state of a run that has not happened
NoRun ==
    [status |-> "none", walk |-> << >>, processed |-> << >>, skipped |-> << >>,
     index_files |-> << >>, index_text |-> << >>, data |-> << >>, out_bytes |-> << >>,
     stats |-> [bundle_size |-> 0, files_processed |-> 0, files_skipped |-> 0,
                total_bytes |-> 0, compression_ratio |-> 0]]

\* no source has been loaded
NoSource == [kind |-> "none"]

\* no call on a source has returned
NoCall ==
    [op |-> "none", path |-> << >>, range |-> <<NoLine, NoLine>>, status |-> "none",
     value |-> << >>]

Init ==
    /\ tree \in Trees
    /\ cfg \in Configs
    /\ clock = 0
    /\ disk = [outdir |-> FALSE, out |-> NoFile, index |-> NoFile]
    /\ run = NoRun
    /\ runs = 0
    /\ prev_out = NoFile
    /\ src = NoSource
    /\ ret = NoCall
    /\ NoThreads
    /\ NoServices

\* a second of wall-clock time passes
Tick ==
    /\ clock < MaxClock
    /\ clock' = clock + 1
    /\ UNCHANGED <<tree, cfg, disk, run, runs, prev_out, src, ret>>
    /\ UNCHANGED <<threads, services>>

\* pack_directory(cfg): apply_defaults changes the caller's cfg object and may
\* raise; otherwise the output directory is made, the files are walked, the index
\* file and the output file are written and the stats returned
Pack ==
    /\ runs < MaxRuns
    /\ runs' = runs + 1
    /\ IF config_error(cfg)
       THEN /\ cfg' = merge_excludes(cfg)
            /\ run' = [NoRun EXCEPT !.status = "ValueError"]
            /\ UNCHANGED <<disk, prev_out>>
       ELSE /\ cfg' = apply_defaults(cfg)
            /\ run' = pack_directory(tree, cfg', clock)
            /\ disk' = [outdir |-> TRUE, out |-> run'.out_bytes,
                        index |-> IF cfg'.index_output # << >>
                                  THEN Encode(run'.index_text) ELSE disk.index]
            /\ prev_out' = disk.out
    /\ UNCHANGED <<tree, clock, src, ret>>
    /\ UNCHANGED <<threads, services>>

Next == Pack \/ Tick

Spec == Init /\ [][Next]_vars

(***************************************************************************)
(* Reading a bundle: the output file is packed, loaded as a BundleSource   *)
(* and queried.  The bundles read here are text (no gzip, no base64).      *)
(***************************************************************************)
\* a path that names no file
MissingPath == <<"n", "o", "p", "e">>

\* the (start, end) pairs get_file is called with
LineRanges == {<<NoLine, NoLine>>, <<1, 1>>, <<2, NoLine>>}

\* the result of a call: the operation, its arguments, how it ended, its value
Returned(op, path, range, result) ==
    [op |-> op, path |-> path, range |-> range, status |-> result.status,
     value |-> result.value]

\* load_source(output_file): a BundleSource when the file exists, else ValueError;
\* the source remembers nothing of the file but its offsets
OpenBundle ==
    /\ IF disk.out = NoFile
       THEN /\ ret' = Returned("load_source", << >>, <<NoLine, NoLine>>,
                              [status |-> "ValueError", value |-> << >>])
            /\ UNCHANGED src
       ELSE /\ src' = [opened |-> runs] @@ BundleSource(disk.out)
            /\ ret' = Returned("load_source", << >>, <<NoLine, NoLine>>,
                              [status |-> "ok", value |-> << >>])
    /\ UNCHANGED <<tree, cfg, clock, disk, run, runs, prev_out>>
    /\ UNCHANGED <<threads, services>>

\* BundleSource.list_files()
BundleListFiles ==
    /\ src.kind = "bundle"
    /\ ret' = Returned("list_files", << >>, <<NoLine, NoLine>>,
                       [status |-> "ok", value |-> bundle_list_files(src)])
    /\ UNCHANGED <<tree, cfg, clock, disk, run, runs, prev_out, src>>
    /\ UNCHANGED <<threads, services>>

\* BundleSource.get_file(path, start, end)
BundleGetFile ==
    /\ src.kind = "bundle"
    /\ \E path \in DOMAIN tree \cup {MissingPath}, range \in LineRanges :
          ret' = Returned("get_file", path, range,
                          bundle_get_file(src, disk.out, path, range[1], range[2]))
    /\ UNCHANGED <<tree, cfg, clock, disk, run, runs, prev_out, src>>
    /\ UNCHANGED <<threads, services>>

InitBundle == Init /\ ~cfg.gzip_out /\ ~cfg.base64_out

NextBundle == Pack \/ OpenBundle \/ BundleListFiles \/ BundleGetFile

SpecBundle == InitBundle /\ [][NextBundle]_vars

(***************************************************************************)
(* Reading a directory: the root is loaded as a DirSource and queried.     *)
(***************************************************************************)
\* a relative path that leaves the root
UpPath == <<".", ".", "/", "s", ".", "t", "x", "t">>

\* the index.json the root may hold: none, one with no entry, one that lists a
\* single file of the directory
IndexJsons(t) ==
    {NoIndex, [exists |-> TRUE, paths |-> << >>]}
    \cup {[exists |-> TRUE, paths |-> <<p>>] : p \in DOMAIN t}

\* load_source(input_dir): a DirSource
OpenDir ==
    /\ \E index_json \in IndexJsons(tree) : src' = DirSource(tree, index_json)
    /\ ret' = Returned("load_source", << >>, <<NoLine, NoLine>>,
                       [status |-> "ok", value |-> << >>])
    /\ UNCHANGED <<tree, cfg, clock, disk, run, runs, prev_out>>
    /\ UNCHANGED <<threads, services>>

\* DirSource.list_files()
DirListFiles ==
    /\ src.kind = "dir"
    /\ ret' = Returned("list_files", << >>, <<NoLine, NoLine>>,
                       [status |-> "ok", value |-> dir_list_files(src)])
    /\ UNCHANGED <<tree, cfg, clock, disk, run, runs, prev_out, src>>
    /\ UNCHANGED <<threads, services>>

\* DirSource.get_file(path, start, end)
DirGetFile ==
    /\ src.kind = "dir"
    /\ \E path \in DOMAIN tree \cup {MissingPath, UpPath, OutsidePath}, range \in LineRanges :
          ret' = Returned("get_file", path, range,
                          dir_get_file(tree, path, range[1], range[2]))
    /\ UNCHANGED <<tree, cfg, clock, disk, run, runs, prev_out, src>>
    /\ UNCHANGED <<threads, services>>

InitDir == Init /\ cfg = PackConfig

NextDir == OpenDir \/ DirListFiles \/ DirGetFile

SpecDir == InitDir /\ [][NextDir]_vars

(***************************************************************************)
(* Searching: a directory is packed with the default configuration, then   *)
(* the directory and the bundle are loaded as sources and searched.        *)
(***************************************************************************)
\* the text of each file a searched directory may hold
SearchText(p) ==
    IF p = SearchCandidates[1] THEN <<"f", "o", "o", "\n", "b", "a", "r", " ", "f", "o", "o", "\n">>
    ELSE IF p = SearchCandidates[2] THEN <<"f", "o", "o", "\n">>
    ELSE IF p = SearchCandidates[3] THEN <<"F", "o", "o", " ", "b", "a", "r", "\n">>
    ELSE IF p = SearchCandidates[4] THEN <<"f", "o", "o", "\n">>
    ELSE IF p = SearchCandidates[5] THEN <<"b", "a", "r", "\n">>
    ELSE <<"f", "o", "o", " ", "=", " ", "1">>

\* the searched directories: at most MaxFiles of these files
SearchTrees ==
    {[p \in P |-> SearchText(p)] :
        P \in {Q \in SUBSET Range(SearchCandidates) : Cardinality(Q) <= MaxFiles}}

\* the queries search is called with: one token, a token twice, three tokens,
\* a token in capitals, no token
Queries ==
    {<<"f", "o", "o">>,
     <<"f", "o", "o", " ", "f", "o", "o">>,
     <<"f", "o", "o", " ", "b", "a", "r", " ", "b", "a", "z">>,
     <<"F", "o", "o">>,
     << >>}

\* the default of max_results
DefaultMaxResults == 50

\* the calls of search: every query with the defaults, and two of the queries
\* with a result count of 0 or 1 and with either case_sensitive
SearchCalls ==
    {<<query, DefaultMaxResults, FALSE>> : query \in Queries}
    \cup {<<query, max_results, case_sensitive>> :
             query \in {<<"f", "o", "o">>, <<"F", "o", "o">>}, max_results \in {0, 1},
             case_sensitive \in BOOLEAN}

\* the index.json a searched root may hold: none, or one that lists a single
\* file of the directory
SearchIndexJsons(t) == {NoIndex} \cup {[exists |-> TRUE, paths |-> <<p>>] : p \in DOMAIN t}

\* the result of a search call: its arguments and the hits returned
Searched(query, max_results, case_sensitive, hits) ==
    [op |-> "search", query |-> query, max_results |-> max_results,
     case_sensitive |-> case_sensitive, status |-> "ok", value |-> hits]

\* the directory has been packed once, with the default configuration
InitSearch ==
    /\ tree \in SearchTrees
    /\ cfg = apply_defaults(PackConfig)
    /\ clock = 0
    /\ run = pack_directory(tree, cfg, clock)
    /\ disk = [outdir |-> TRUE, out |-> run.out_bytes, index |-> NoFile]
    /\ runs = 1
    /\ prev_out = NoFile
    /\ src = NoSource
    /\ ret = NoCall
    /\ NoThreads
    /\ NoServices

\* load_source(input_dir): a DirSource
OpenSearchDir ==
    /\ \E index_json \in SearchIndexJsons(tree) : src' = DirSource(tree, index_json)
    /\ ret' = Returned("load_source", << >>, <<NoLine, NoLine>>,
                       [status |-> "ok", value |-> << >>])
    /\ UNCHANGED <<tree, cfg, clock, disk, run, runs, prev_out>>
    /\ UNCHANGED <<threads, services>>

\* DirSource.search(query, max_results, case_sensitive)
DirSearch ==
    /\ src.kind = "dir"
    /\ \E call \in SearchCalls :
          ret' = Searched(call[1], call[2], call[3],
                          dir_search(tree, src, call[1], call[2], call[3]))
    /\ UNCHANGED <<tree, cfg, clock, disk, run, runs, prev_out, src>>
    /\ UNCHANGED <<threads, services>>

\* BundleSource.search(query, max_results, case_sensitive)
BundleSearch ==
    /\ src.kind = "bundle"
    /\ \E call \in SearchCalls :
          ret' = Searched(call[1], call[2], call[3],
                          bundle_search(src, disk.out, call[1], call[2], call[3]))
    /\ UNCHANGED <<tree, cfg, clock, disk, run, runs, prev_out, src>>
    /\ UNCHANGED <<threads, services>>

NextSearch == OpenSearchDir \/ OpenBundle \/ DirSearch \/ BundleSearch

SpecSearch == InitSearch /\ [][NextSearch]_vars

(***************************************************************************)
(* Line ranges: a directory whose files have some lines is packed with the *)
(* default configuration, then the directory and the bundle are loaded as  *)
(* sources and get_file is called with a range of lines.                   *)
(***************************************************************************)
\* the number of lines a file has at most
MaxTextLines == 3

\* a text of n lines; the last line ends with a newline or not
lined_text(n, closed) ==
    LET body == Concat([i \in 1..n |-> <<"l">> \o Digits(i) \o <<"\n">>])
    IN  IF closed \/ n = 0 THEN body ELSE Slice(body, 1, Len(body) - 1)

\* the texts of at most MaxTextLines lines
LinedTexts == {lined_text(n, closed) : n \in 0..MaxTextLines, closed \in BOOLEAN}

\* the directories: one file of any of these texts, or two files
LinedTrees ==
    {[p \in {SearchCandidates[3]} |-> text] : text \in LinedTexts}
    \cup {(SearchCandidates[3] :> lined_text(MaxTextLines, FALSE))
          @@ (SearchCandidates[6] :> lined_text(1, TRUE))}

\* the values of start and of end: not given, or a line number from 1 to one
\* past the longest file
LineNumbers == {NoLine} \cup (1..(MaxTextLines + 1))

\* the result of a get_file call, with the number of the last line it read
GotLines(path, start, end, result, read) ==
    Returned("get_file", path, <<start, end>>, result) @@ [read |-> read]

\* the directory has been packed once, with the default configuration
InitLines ==
    /\ tree \in LinedTrees
    /\ cfg = apply_defaults(PackConfig)
    /\ clock = 0
    /\ run = pack_directory(tree, cfg, clock)
    /\ disk = [outdir |-> TRUE, out |-> run.out_bytes, index |-> NoFile]
    /\ runs = 1
    /\ prev_out = NoFile
    /\ src = NoSource
    /\ ret = NoCall
    /\ NoThreads
    /\ NoServices

\* DirSource.get_file(path, start, end)
DirGetLines ==
    /\ src.kind = "dir"
    /\ \E path \in DOMAIN tree, start \in LineNumbers, end \in LineNumbers :
          ret' = GotLines(path, start, end, dir_get_file(tree, path, start, end),
                          lines_read(dir_get_file(tree, path, NoLine, NoLine).value, start, end))
    /\ UNCHANGED <<tree, cfg, clock, disk, run, runs, prev_out, src>>
    /\ UNCHANGED <<threads, services>>

\* BundleSource.get_file(path, start, end)
BundleGetLines ==
    /\ src.kind = "bundle"
    /\ \E path \in DOMAIN src._index, start \in LineNumbers, end \in LineNumbers :
          ret' = GotLines(path, start, end, bundle_get_file(src, disk.out, path, start, end),
                          lines_read(bundle_get_file(src, disk.out, path, NoLine, NoLine).value,
                                     start, end))
    /\ UNCHANGED <<tree, cfg, clock, disk, run, runs, prev_out, src>>
    /\ UNCHANGED <<threads, services>>

NextLines == OpenSearchDir \/ OpenBundle \/ DirGetLines \/ BundleGetLines

SpecLines == InitLines /\ [][NextLines]_vars

(***************************************************************************)
(* Concurrent reads: a directory is packed with the default configuration, *)
(* the bundle is loaded as one BundleSource, and several threads call      *)
(* list_files, get_file and search on it.  A call is a sequence of steps:  *)
(* the look-up in the offset index, open, seek, read.                      *)
(***************************************************************************)
\* the number of threads that call the source
MaxThreads == 2

Threads == 1..MaxThreads

\* the packed directories: one file, two files
ReaderTrees ==
    {[p \in P |-> SearchText(p)] :
        P \in {{SearchCandidates[1]}, {SearchCandidates[1], SearchCandidates[6]}}}

\* the query the threads search for
ReaderQuery == <<"f", "o", "o">>

\* a thread that is in no call
Idle ==
    [pc |-> "idle", op |-> "none", path |-> << >>, files |-> << >>, k |-> 0,
     results |-> << >>, start_pos |-> 0, end_pos |-> 0, status |-> "none", value |-> << >>]

\* a file that is not open
Closed == [open |-> FALSE, pos |-> 0]

\* every call reads through one and the same handle
one_handle(t) == 1

\* the handle a call of thread t opens: one of its own, from open(self.bundle_path)
handle_of(t) == t

\* the bundle has been packed and loaded; no thread has called anything
InitReaders ==
    /\ tree \in ReaderTrees
    /\ cfg = apply_defaults(PackConfig)
    /\ clock = 0
    /\ run = pack_directory(tree, cfg, clock)
    /\ disk = [outdir |-> TRUE, out |-> run.out_bytes, index |-> NoFile]
    /\ runs = 1
    /\ prev_out = NoFile
    /\ src = [opened |-> runs] @@ BundleSource(disk.out)
    /\ ret = NoCall
    /\ calls = [t \in Threads |-> Idle]
    /\ handles = [h \in Threads |-> Closed]
    /\ NoServices

\* the call of thread t has returned or raised
finished(call, status, value) ==
    [call EXCEPT !.pc = "done", !.status = status, !.value = value]

\* search goes on after file k: to the next file of the listing, or to the
\* sort and the slice when there is none
next_file(call, results) ==
    IF call.k < Len(call.files)
    THEN [call EXCEPT !.pc = "check", !.k = call.k + 1, !.path = call.files[call.k + 1],
                      !.results = results]
    ELSE finished([call EXCEPT !.results = results], "ok",
                  first_results(sort_by_score(results), DefaultMaxResults))

\* get_file has ended with got: the call returns it, or search takes the hits
\* of the file from it (none when it raised)
after_get_file(call, got) ==
    IF call.op = "get_file" THEN finished(call, got.status, got.value)
    ELSE next_file(call, call.results
                         \o bundle_file_results(call.path, got, query_tokens(ReaderQuery), FALSE))

\* thread t calls list_files(), which returns at once
CallListFiles(t) ==
    /\ calls[t].pc = "idle"
    /\ calls' = [calls EXCEPT ![t] = finished([Idle EXCEPT !.op = "list_files"], "ok",
                                              bundle_list_files(src))]
    /\ UNCHANGED <<tree, cfg, clock, disk, run, runs, prev_out, src, ret, handles>>
    /\ UNCHANGED services

\* thread t calls get_file(path)
CallGetFile(t) ==
    /\ calls[t].pc = "idle"
    /\ \E path \in DOMAIN tree \cup {MissingPath} :
          calls' = [calls EXCEPT ![t] = [Idle EXCEPT !.pc = "check", !.op = "get_file",
                                                     !.path = path]]
    /\ UNCHANGED <<tree, cfg, clock, disk, run, runs, prev_out, src, ret, handles>>
    /\ UNCHANGED services

\* thread t calls search(query): the listing is taken, the loop begins
CallSearch(t) ==
    /\ calls[t].pc = "idle"
    /\ calls' = [calls EXCEPT ![t] =
                    next_file([Idle EXCEPT !.op = "search", !.files = bundle_list_files(src)],
                              << >>)]
    /\ UNCHANGED <<tree, cfg, clock, disk, run, runs, prev_out, src, ret, handles>>
    /\ UNCHANGED services

\* get_file looks the path up in self._index
CheckIndex(t) ==
    /\ calls[t].pc = "check"
    /\ calls' = [calls EXCEPT ![t] =
                    IF calls[t].path \notin DOMAIN src._index
                    THEN after_get_file(calls[t], [status |-> "FileNotFoundError", value |-> << >>])
                    ELSE [calls[t] EXCEPT !.pc = "open",
                                          !.start_pos = src._index[calls[t].path][1],
                                          !.end_pos = src._index[calls[t].path][2]]]
    /\ UNCHANGED <<tree, cfg, clock, disk, run, runs, prev_out, src, ret, handles>>
    /\ UNCHANGED services

\* open(self.bundle_path, "rb")
OpenHandle(t) ==
    /\ calls[t].pc = "open"
    /\ handles' = [handles EXCEPT ![handle_of(t)] = [open |-> TRUE, pos |-> 0]]
    /\ calls' = [calls EXCEPT ![t].pc = "seek"]
    /\ UNCHANGED <<tree, cfg, clock, disk, run, runs, prev_out, src, ret>>
    /\ UNCHANGED services

\* f.seek(start_pos)
Seek(t) ==
    /\ calls[t].pc = "seek"
    /\ handles' = [handles EXCEPT ![handle_of(t)].pos = calls[t].start_pos]
    /\ calls' = [calls EXCEPT ![t].pc = "read"]
    /\ UNCHANGED <<tree, cfg, clock, disk, run, runs, prev_out, src, ret>>
    /\ UNCHANGED services

\* the bytes f.read(n) returns from position pos of the file
read_bytes(bytes, pos, n) == Slice(bytes, pos + 1, Min2(pos + n, Len(bytes)))

\* f.read(end_pos - start_pos), the end of the with block, and the decoding
ReadSpan(t) ==
    /\ calls[t].pc = "read"
    /\ handles' = [handles EXCEPT ![handle_of(t)] = Closed]
    /\ calls' = [calls EXCEPT ![t] =
                    after_get_file(calls[t],
                        [status |-> "ok",
                         value |-> Decode(read_bytes(disk.out, handles[handle_of(t)].pos,
                                                     calls[t].end_pos - calls[t].start_pos))])]
    /\ UNCHANGED <<tree, cfg, clock, disk, run, runs, prev_out, src, ret>>
    /\ UNCHANGED services

\* the caller of thread t has taken the result; the thread is free again
TakeResult(t) ==
    /\ calls[t].pc = "done"
    /\ calls' = [calls EXCEPT ![t] = Idle]
    /\ UNCHANGED <<tree, cfg, clock, disk, run, runs, prev_out, src, ret, handles>>
    /\ UNCHANGED services

NextReaders ==
    \E t \in Threads :
        \/ CallListFiles(t)
        \/ CallGetFile(t)
        \/ CallSearch(t)
        \/ CheckIndex(t)
        \/ OpenHandle(t)
        \/ Seek(t)
        \/ ReadSpan(t)
        \/ TakeResult(t)

SpecReaders == InitReaders /\ [][NextReaders]_vars

(***************************************************************************)
(* The file filters on their own: the file loop tests a relative path      *)
(* against the include and the exclude patterns.                           *)
(***************************************************************************)
\* the number of patterns in a list
MaxPatterns == 2

\* the patterns: with no separator, with "/", with "\"
FilterPatterns ==
    {<<"*", ".", "t", "x", "t">>, <<"k", "e", "e", "p", ".", "*">>,
     <<"a", "/", "*", ".", "t", "x", "t">>, <<"*", "*", "/", "*", ".", "l", "o", "g">>,
     <<"k", "\\", "*">>}

\* the lists of at most MaxPatterns patterns
PatternLists == UNION {[1..n -> FilterPatterns] : n \in 0..MaxPatterns}

\* the relative paths that are tested
FilterPaths ==
    {<<"k", "e", "e", "p", ".", "t", "x", "t">>, <<"a", "/", "k", "e", "e", "p", ".", "t", "x", "t">>,
     <<"b", "/", "k", "e", "e", "p", ".", "t", "x", "t">>, <<"a", "/", "b", ".", "l", "o", "g">>,
     <<"R", ".", "m", "d">>, <<"a", "/", "k", "\\", "x">>}

\* a file lies in the directory; the patterns are the include and the exclude
\* list as they are handed to the tests
InitFilter ==
    /\ tree \in {[p \in {path} |-> << >>] : path \in FilterPaths}
    /\ cfg \in {[PackConfig EXCEPT !.include_globs = pats, !.exclude_globs = pats] :
                   pats \in PatternLists}
    /\ clock = 0
    /\ disk = [outdir |-> FALSE, out |-> NoFile, index |-> NoFile]
    /\ run = NoRun
    /\ runs = 0
    /\ prev_out = NoFile
    /\ src = NoSource
    /\ ret = NoCall
    /\ NoThreads
    /\ NoServices

\* _should_exclude(rel_path, cfg.exclude_globs) and
\* _should_include(rel_path, cfg.include_globs) for the file of the directory
TestFilters ==
    /\ ret.op = "none"
    /\ \E rel_path \in DOMAIN tree :
          ret' = [op |-> "filters", path |-> rel_path,
                  excluded |-> _should_exclude(rel_path, cfg.exclude_globs),
                  included |-> _should_include(rel_path, cfg.include_globs)]
    /\ UNCHANGED <<tree, cfg, clock, disk, run, runs, prev_out, src>>
    /\ UNCHANGED <<threads, services>>

NextFilter == TestFilters

SpecFilter == InitFilter /\ [][NextFilter]_vars

(***************************************************************************)
(* The caption conversion on its own: a WebVTT file of a header and some   *)
(* blocks, a blank line between them, is converted to text.                *)
(***************************************************************************)
\* the number of blocks after the header
MaxBlocks == 2

\* the blocks, each a sequence of lines: a comment, a style block, a cue with
\* an identifier, a cue with hours and tags, a cue of two text lines, a cue
\* with no text, a cue whose text is tags only, a cue whose text begins with a
\* word and two colons
VttBlocks ==
    {<<<<"N", "O", "T", "E", " ", "c">>>>,
     <<<<"S", "T", "Y", "L", "E">>,
      <<"x">>>>,
     <<<<"1">>,
      <<"0", "0", ":", "0", "1", ".", "0", "0", "0", " ", "-", "-", ">", " ", "0", "0", ":", "0", "2", ".", "0", "0", "0">>,
      <<"H", "i">>>>,
     <<<<"0", "1", ":", "0", "0", ":", "0", "5", ".", "0", "0", "0", " ", "-", "-", ">", " ", "0", "1", ":", "0", "0", ":", "0", "6", ".", "0", "0", "0">>,
      <<"<", "b", ">", "H", "i", "<", "/", "b", ">", " ", "y">>>>,
     <<<<"0", "0", ":", "0", "2", ".", "0", "0", "0", " ", "-", "-", ">", " ", "0", "0", ":", "0", "3", ".", "0", "0", "0">>,
      <<"a", " ", " ", "b">>,
      <<"c">>>>,
     <<<<"0", "0", ":", "0", "3", ".", "0", "0", "0", " ", "-", "-", ">", " ", "0", "0", ":", "0", "4", ".", "0", "0", "0">>>>,
     <<<<"0", "0", ":", "0", "4", ".", "0", "0", "0", " ", "-", "-", ">", " ", "0", "0", ":", "0", "5", ".", "0", "0", "0">>,
      <<"<", "i", ">", "<", "/", "i", ">">>>>,
     <<<<"0", "0", ":", "0", "5", ".", "0", "0", "0", " ", "-", "-", ">", " ", "0", "0", ":", "0", "6", ".", "0", "0", "0">>,
      <<"w", ":", ":", "x">>>>}

\* the header block
VttHeader == << <<"W", "E", "B", "V", "T", "T">> >>

\* the blocks of a file: the header, then bs
VttHeader_then(bs) == <<VttHeader>> \o bs

\* the file: the blocks' lines, a blank line between two blocks
vtt_file(blocks) ==
    Concat([b \in 1..Len(blocks) |->
              Concat([k \in 1..Len(blocks[b]) |-> blocks[b][k] \o <<"\n">>])
              \o (IF b < Len(blocks) THEN <<"\n">> ELSE << >>)])

\* the files of a header and at most MaxBlocks blocks
VttFiles ==
    UNION {{vtt_file(VttHeader_then(bs)) : bs \in [1..n -> VttBlocks]} : n \in 0..MaxBlocks}

\* the path of the caption file
VttPath == <<"a", ".", "v", "t", "t">>

\* a caption file lies in the directory
InitVtt ==
    /\ tree \in {[p \in {VttPath} |-> data] : data \in VttFiles}
    /\ cfg = PackConfig
    /\ clock = 0
    /\ disk = [outdir |-> FALSE, out |-> NoFile, index |-> NoFile]
    /\ run = NoRun
    /\ runs = 0
    /\ prev_out = NoFile
    /\ src = NoSource
    /\ ret = NoCall
    /\ NoThreads
    /\ NoServices

\* _vtt_to_text(vtt_path, out_txt_path): the text file is written, the number
\* of lines is returned
VttToText ==
    /\ ret.op = "none"
    /\ disk' = [disk EXCEPT !.outdir = TRUE,
                            !.out = Encode(_vtt_to_text(tree[VttPath]).written)]
    /\ ret' = [NoCall EXCEPT !.op = "_vtt_to_text", !.path = VttPath, !.status = "ok",
                             !.value = _vtt_to_text(tree[VttPath]).returned]
    /\ UNCHANGED <<tree, cfg, clock, run, runs, prev_out, src>>
    /\ UNCHANGED <<threads, services>>

NextVtt == VttToText

SpecVtt == InitVtt /\ [][NextVtt]_vars

(***************************************************************************)
(* Scanning: a bundle file of any lines is loaded as a BundleSource and    *)
(* queried.                                                                *)
(***************************************************************************)
\* the number of lines of a scanned bundle
MaxLines == 3

\* the paths named in the markers of a scanned bundle
PathA == <<"a">>

PathB == <<"b">>

\* the lines a scanned bundle is made of: START and END markers, a line of
\* text, the FILE INDEX markers, an empty line
ScanLines ==
    {START_PFX \o PathA \o MARK_SFX, START_PFX \o PathB \o MARK_SFX,
     END_PFX \o PathA \o MARK_SFX, PathA, INDEX_START, INDEX_END, << >>}

\* the bundle files that hold the given lines, a newline after each
bundle_of(lines) == Encode(Concat([k \in 1..Len(lines) |-> lines[k] \o <<"\n">>]))

\* the scanned bundles: at most MaxLines of these lines
ScanBundles ==
    UNION {{bundle_of(lines) : lines \in [1..n -> ScanLines]} : n \in 0..MaxLines}

\* a bundle file lies on the disk; nothing has been packed
InitScan ==
    /\ tree = << >>
    /\ cfg = PackConfig
    /\ clock = 0
    /\ disk \in {[outdir |-> TRUE, out |-> b, index |-> NoFile] : b \in ScanBundles}
    /\ run = NoRun
    /\ runs = 0
    /\ prev_out = NoFile
    /\ src = NoSource
    /\ ret = NoCall
    /\ NoThreads
    /\ NoServices

\* BundleSource.get_file(path) for a listed path or a path that names no file
GetListed ==
    /\ src.kind = "bundle"
    /\ \E path \in Range(bundle_list_files(src)) \cup {MissingPath} :
          ret' = Returned("get_file", path, <<NoLine, NoLine>>,
                          bundle_get_file(src, disk.out, path, NoLine, NoLine))
    /\ UNCHANGED <<tree, cfg, clock, disk, run, runs, prev_out, src>>
    /\ UNCHANGED <<threads, services>>

NextScan == OpenBundle \/ BundleListFiles \/ GetListed

SpecScan == InitScan /\ [][NextScan]_vars

(***************************************************************************)
(* Spans: a bundle file of marker lines and text, long enough to hold two  *)
(* entries, is loaded as a BundleSource and queried.                       *)
(***************************************************************************)
\* the number of lines of such a bundle
MaxMarkers == 4

\* its lines: the START markers of two paths, an END marker, and a line of text
SpanLines ==
    {START_PFX \o PathA \o MARK_SFX, START_PFX \o PathB \o MARK_SFX,
     END_PFX \o PathA \o MARK_SFX, PathA}

\* the bundles of at most MaxMarkers of these lines
SpanBundles ==
    UNION {{bundle_of(lines) : lines \in [1..n -> SpanLines]} : n \in 0..MaxMarkers}

\* such a bundle lies on the disk; nothing has been packed
InitSpans ==
    /\ tree = << >>
    /\ cfg = PackConfig
    /\ clock = 0
    /\ disk \in {[outdir |-> TRUE, out |-> b, index |-> NoFile] : b \in SpanBundles}
    /\ run = NoRun
    /\ runs = 0
    /\ prev_out = NoFile
    /\ src = NoSource
    /\ ret = NoCall
    /\ NoThreads
    /\ NoServices

NextSpans == OpenBundle \/ BundleListFiles \/ GetListed

SpecSpans == InitSpans /\ [][NextSpans]_vars

(***************************************************************************)
(* corpus/mcp/catalog.py: the catalog of collections kept in catalog.yaml  *)
(* under the home.  The file is missing, or holds the payload that         *)
(* save_catalog dumped: the version and the collections, each the dict of  *)
(* its fields.  A collection id is a key such as "x"; a source is a path.  *)
(***************************************************************************)
\* no catalog.yaml lies in the home
MissingCatalog == [exists |-> FALSE, version |-> 1, collections |-> << >>]

\* the working directory of the process
Cwd == <<"/", "w">>

\* os.path.abspath(source)
abspath(source) ==
    IF source # << >> /\ source[1] = "/" THEN source ELSE Cwd \o <<"/">> \o source

\* Collection(id, name=None, source, type="auto", tags=[], added_at): name None
\* is the empty text, added_at is the second of the call
Collection(col_id, source, added_at) ==
    [id |-> col_id, name |-> << >>, source |-> source, type |-> "auto",
     tags |-> << >>, added_at |-> added_at]

\* load_catalog: Catalog(version=1, collections=[]) when there is no file, else
\* what the file holds
load_catalog(file) ==
    IF ~file.exists THEN [version |-> 1, collections |-> << >>]
    ELSE [version |-> file.version, collections |-> file.collections]

\* save_catalog: the file holds the version and the collections of cat
save_catalog(cat) ==
    [exists |-> TRUE, version |-> cat.version, collections |-> cat.collections]

\* [c for c in cat.collections if c.id != col_id]
without(collections, col_id) == SelectSeq(collections, LAMBDA c : c.id # col_id)

\* a catalog that keeps the entry it replaces
appended_only(cat, col_id, source, now) ==
    [cat EXCEPT !.collections = Append(@, Collection(col_id, abspath(source), now))]

\* add_collection between load_catalog and save_catalog: the entry of col_id is
\* removed and the new collection appended
replaced(cat, col_id, source, now) ==
    [cat EXCEPT !.collections =
        Append(without(@, col_id), Collection(col_id, abspath(source), now))]

\* remove_collection between load_catalog and save_catalog
removed(cat, col_id) == [cat EXCEPT !.collections = without(@, col_id)]

(***************************************************************************)
(* The catalog, one call after the other: collections are added to and     *)
(* removed from the catalog of a home that starts without a catalog.yaml.  *)
(***************************************************************************)
\* the number of calls
MaxCalls == 4

\* the ids and the sources of the calls
CollectionIds == {"x", "y"}

Sources == {<<"s">>, <<"/", "t">>}

\* no call on the catalog has returned
NoCatalogCall == [op |-> "none", col_id |-> "", source |-> << >>]

InitCatalog ==
    /\ tree = << >>
    /\ cfg = PackConfig
    /\ clock = 0
    /\ disk = [outdir |-> FALSE, out |-> NoFile, index |-> NoFile]
    /\ run = NoRun
    /\ runs = 0
    /\ prev_out = NoFile
    /\ src = NoSource
    /\ ret = NoCatalogCall
    /\ NoThreads
    /\ catalog = MissingCatalog
    /\ adders = << >>
    /\ batch = << >>

\* add_collection(col_id, source): load_catalog, replace, save_catalog
AddCollection ==
    /\ runs < MaxCalls
    /\ runs' = runs + 1
    /\ \E col_id \in CollectionIds, source \in Sources :
          /\ catalog' = save_catalog(replaced(load_catalog(catalog), col_id, source, clock))
          /\ ret' = [op |-> "add_collection", col_id |-> col_id, source |-> source]
    /\ UNCHANGED <<tree, cfg, clock, disk, run, prev_out, src>>
    /\ UNCHANGED <<threads, adders, batch>>

\* remove_collection(col_id): load_catalog, remove, save_catalog
RemoveCollection ==
    /\ runs < MaxCalls
    /\ runs' = runs + 1
    /\ \E col_id \in CollectionIds :
          /\ catalog' = save_catalog(removed(load_catalog(catalog), col_id))
          /\ ret' = [op |-> "remove_collection", col_id |-> col_id, source |-> << >>]
    /\ UNCHANGED <<tree, cfg, clock, disk, run, prev_out, src>>
    /\ UNCHANGED <<threads, adders, batch>>

NextCatalog == AddCollection \/ RemoveCollection \/ Tick

SpecCatalog == InitCatalog /\ [][NextCatalog]_vars

(***************************************************************************)
(* The catalog, calls at the same time: each of several callers adds a     *)
(* collection of its own id to the catalog of one home.  A call is three   *)
(* steps: load_catalog, the change of the loaded catalog, save_catalog.    *)
(***************************************************************************)
\* the number of callers
MaxAdders == 2

Adders == 1..MaxAdders

\* the ids the callers add
AdderIds == {"x", "y", "z"}

\* a caller that has not called
Waiting == [pc |-> "idle", col_id |-> "", source |-> << >>,
            cat |-> load_catalog(MissingCatalog)]

\* the catalogs the home may hold before the calls: none, or one collection
EarlierCatalogs ==
    {MissingCatalog,
     save_catalog(replaced(load_catalog(MissingCatalog), "x", <<"s">>, 0))}

InitAdders ==
    /\ tree = << >>
    /\ cfg = PackConfig
    /\ clock = 0
    /\ disk = [outdir |-> FALSE, out |-> NoFile, index |-> NoFile]
    /\ run = NoRun
    /\ runs = 0
    /\ prev_out = NoFile
    /\ src = NoSource
    /\ ret = NoCatalogCall
    /\ NoThreads
    /\ catalog \in EarlierCatalogs
    /\ adders = [p \in Adders |-> Waiting]
    /\ batch = << >>

\* the ids the other callers add
taken_ids(p) == {adders[q].col_id : q \in Adders \ {p}}

\* caller p calls add_collection(col_id, source), which loads the catalog
LoadCatalog(p) ==
    /\ adders[p].pc = "idle"
    /\ \E col_id \in AdderIds \ taken_ids(p), source \in Sources :
          adders' = [adders EXCEPT ![p] = [pc |-> "loaded", col_id |-> col_id,
                                           source |-> source,
                                           cat |-> load_catalog(catalog)]]
    /\ UNCHANGED <<tree, cfg, clock, disk, run, runs, prev_out, src, ret>>
    /\ UNCHANGED <<threads, catalog, batch>>

\* the call of p replaces the entry of its id in the catalog it loaded
ReplaceEntry(p) ==
    /\ adders[p].pc = "loaded"
    /\ adders' = [adders EXCEPT ![p].pc = "replaced",
                                ![p].cat = replaced(@, adders[p].col_id,
                                                    adders[p].source, clock)]
    /\ UNCHANGED <<tree, cfg, clock, disk, run, runs, prev_out, src, ret>>
    /\ UNCHANGED <<threads, catalog, batch>>

\* the call of p saves its catalog and returns
SaveCatalog(p) ==
    /\ adders[p].pc = "replaced"
    /\ catalog' = save_catalog(adders[p].cat)
    /\ adders' = [adders EXCEPT ![p].pc = "returned"]
    /\ UNCHANGED <<tree, cfg, clock, disk, run, runs, prev_out, src, ret>>
    /\ UNCHANGED <<threads, batch>>

NextAdders == \E p \in Adders : LoadCatalog(p) \/ ReplaceEntry(p) \/ SaveCatalog(p)

SpecAdders == InitAdders /\ [][NextAdders]_vars

(***************************************************************************)
(* corpus/batch.py run_batch: every URL is submitted to a pool of          *)
(* max(1, concurrency) worker threads, the futures are taken as they       *)
(* complete, and the pool is shut down, all its work done, before the call *)
(* returns or raises.  A future is pending, running, done (capture_video   *)
(* returned its summary) or failed (it raised).                            *)
(***************************************************************************)
\* the number of URLs of a batch
MaxUrls == 3

\* the greatest concurrency asked for
MaxWorkers == 2

BatchUrls == {"u", "v"}

UrlLists == UNION {[1..n -> BatchUrls] : n \in 0..MaxUrls}

\* the summary capture_video returns for a URL: the id of its video stands for
\* the paths and counts, which are all named after it
summary_of(url) == [id |-> <<"id of", url>>]

\* str(exc) of the error capture_video raises for a URL
error_of(url) == <<"failed", url>>

\* no error has been raised
NoError == << >>

\* run_batch has not been called
NoBatch ==
    [pc |-> "idle", urls |-> << >>, max_workers |-> 1, fail_fast |-> FALSE,
     jsonl |-> FALSE, futures |-> << >>, yielded |-> << >>, results |-> << >>,
     stdout |-> << >>, raised |-> NoError]

InitBatch ==
    /\ tree = << >>
    /\ cfg = PackConfig
    /\ clock = 0
    /\ disk = [outdir |-> FALSE, out |-> NoFile, index |-> NoFile]
    /\ run = NoRun
    /\ runs = 0
    /\ prev_out = NoFile
    /\ src = NoSource
    /\ ret = NoCall
    /\ NoThreads
    /\ catalog = << >>
    /\ adders = << >>
    /\ batch = NoBatch

\* the futures in the given states
futures_in(b, states) == {f \in 1..Len(b.futures) : b.futures[f] \in states}

\* every future has completed
all_finished(b) == futures_in(b, {"pending", "running"}) = {}

\* run_batch(urls, options, concurrency, fail_fast, jsonl): the pool is made and
\* every URL submitted
RunBatch ==
    /\ batch.pc = "idle"
    /\ \E urls \in UrlLists, concurrency \in 0..MaxWorkers, fail_fast, jsonl \in BOOLEAN :
          batch' = [NoBatch EXCEPT !.pc = "collecting", !.urls = urls,
                                   !.max_workers = Max2(1, concurrency),
                                   !.fail_fast = fail_fast, !.jsonl = jsonl,
                                   !.futures = [f \in 1..Len(urls) |-> "pending"]]
    /\ UNCHANGED <<tree, cfg, clock, disk, run, runs, prev_out, src, ret>>
    /\ UNCHANGED <<threads, catalog, adders>>

\* a free worker takes the oldest pending future off the queue of the pool
StartCapture ==
    /\ futures_in(batch, {"pending"}) # {}
    /\ Cardinality(futures_in(batch, {"running"})) < batch.max_workers
    /\ \E f \in futures_in(batch, {"pending"}) :
          /\ \A g \in futures_in(batch, {"pending"}) : f <= g
          /\ batch' = [batch EXCEPT !.futures[f] = "running"]
    /\ UNCHANGED <<tree, cfg, clock, disk, run, runs, prev_out, src, ret>>
    /\ UNCHANGED <<threads, catalog, adders>>

\* _capture_one of a running future returns the summary or raises
FinishCapture ==
    /\ \E f \in futures_in(batch, {"running"}), outcome \in {"done", "failed"} :
          batch' = [batch EXCEPT !.futures[f] = outcome]
    /\ UNCHANGED <<tree, cfg, clock, disk, run, runs, prev_out, src, ret>>
    /\ UNCHANGED <<threads, catalog, adders>>

\* a batch without the record of a failed capture
failure_skipped(b, url) == b

\* results.append({"url": url, "error": str(exc)}), and the line on stdout
failure_recorded(b, url) ==
    [b EXCEPT !.results = Append(@, [url |-> url, error |-> error_of(url)]),
              !.stdout = IF b.jsonl THEN Append(@, [url |-> url, error |-> error_of(url)])
                         ELSE @]

\* results.append(summary), and the line on stdout
summary_recorded(b, url) ==
    [b EXCEPT !.results = Append(@, summary_of(url)),
              !.stdout = IF b.jsonl THEN Append(@, summary_of(url)) ELSE @]

\* the body of the loop for the future f that as_completed yielded
taken(b, f) ==
    IF b.futures[f] = "done" THEN summary_recorded(b, b.urls[f])
    ELSE IF b.fail_fast
    THEN [b EXCEPT !.pc = "raising", !.raised = error_of(b.urls[f])]
    ELSE failure_recorded(b, b.urls[f])

\* as_completed yields a completed future it has not yielded, and the body of
\* the loop runs
TakeCompleted ==
    /\ batch.pc = "collecting"
    /\ \E f \in futures_in(batch, {"done", "failed"}) \ Range(batch.yielded) :
          batch' = taken([batch EXCEPT !.yielded = Append(@, f)], f)
    /\ UNCHANGED <<tree, cfg, clock, disk, run, runs, prev_out, src, ret>>
    /\ UNCHANGED <<threads, catalog, adders>>

\* every future has been yielded: the pool is shut down and results returned
ReturnResults ==
    /\ batch.pc = "collecting"
    /\ Len(batch.yielded) = Len(batch.urls)
    /\ all_finished(batch)
    /\ batch' = [batch EXCEPT !.pc = "returned"]
    /\ UNCHANGED <<tree, cfg, clock, disk, run, runs, prev_out, src, ret>>
    /\ UNCHANGED <<threads, catalog, adders>>

\* the error leaves the with block: the pool is shut down, which waits for the
\* captures still queued or running, and the error reaches the caller
RaiseFailure ==
    /\ batch.pc = "raising"
    /\ all_finished(batch)
    /\ batch' = [batch EXCEPT !.pc = "raised"]
    /\ UNCHANGED <<tree, cfg, clock, disk, run, runs, prev_out, src, ret>>
    /\ UNCHANGED <<threads, catalog, adders>>

NextBatch ==
    \/ RunBatch
    \/ StartCapture
    \/ FinishCapture
    \/ TakeCompleted
    \/ ReturnResults
    \/ RaiseFailure

SpecBatch == InitBatch /\ [][NextBatch]_vars

(***************************************************************************)
(* The pack command: one invocation, with or without a config file.        *)
(***************************************************************************)
\* the directory a path names: the packed directory for ".", else another one
OtherDir == <<"i", "n">>

dir_at(t, input_dir) ==
    IF input_dir = OtherDir THEN (Candidates[5] :> FileText(Candidates[5])) ELSE t

\* the outcome of pack_directory(c) on the directories there are, at second now
pack_outcome(t, c, now) ==
    IF config_error(c)
    THEN [status |-> "ValueError", passed |-> c, cfg |-> merge_excludes(c), run |-> NoRun]
    ELSE [status |-> "ok", passed |-> c, cfg |-> apply_defaults(c),
          run |-> pack_directory(dir_at(t, c.input_dir), apply_defaults(c), now)]

\* the outcome of the pack command
pack_command(t, given, config_file, now) ==
    IF config_file.exists /\ load_error(config_file.data)
    THEN [status |-> "ValueError", passed |-> FullPackConfig, cfg |-> FullPackConfig,
          run |-> NoRun]
    ELSE pack_outcome(t, command_config(given, config_file), now)

\* the options on the command line: none, or one of them
CommandLines ==
    {<< >>, [index_only |-> TRUE], [compress |-> TRUE], [index_style |-> "tree"],
     [input_dir |-> OtherDir], [output_file |-> <<"o">>],
     [include_globs |-> <<<<"*", "*", "/", "*", ".", "t", "x", "t">>>>]}

\* the config file: none, or a file that sets no field or some
ConfigFiles ==
    {NoConfigFile}
    \cup {[exists |-> TRUE, data |-> data] :
             data \in {<< >>, [compress |-> TRUE], [input_dir |-> OtherDir],
                       [write_index |-> TRUE, index_style |-> "json"],
                       [base64_out |-> TRUE],
                       [exclude_globs |-> <<<<"k", "e", "e", "p", ".", "*">>>>]}}

\* the result of the pack command: its options, its config file, the PackConfig
\* it passed to pack_directory, how it ended
Packed(given, config_file, outcome) ==
    [op |-> "pack", given |-> given, config_file |-> config_file,
     passed |-> outcome.passed, status |-> outcome.status]

\* what the command leaves on the disk
written(d, outcome) ==
    IF outcome.status = "ok"
    THEN [outdir |-> TRUE, out |-> outcome.run.out_bytes,
          index |-> IF outcome.cfg.index_output # << >>
                    THEN Encode(outcome.run.index_text) ELSE d.index,
          path |-> outcome.cfg.output_file]
    ELSE d

\* the state after the command
Ran(given, config_file, outcome) ==
    /\ ret' = Packed(given, config_file, outcome)
    /\ cfg' = outcome.cfg
    /\ run' = [outcome.run EXCEPT !.status = outcome.status]
    /\ disk' = written(disk, outcome)
    /\ prev_out' = IF outcome.status = "ok" THEN disk.out ELSE prev_out

\* corpus pack [options] [--config file]
PackCommand ==
    /\ runs = 0
    /\ runs' = runs + 1
    /\ \E given \in CommandLines, config_file \in ConfigFiles :
          Ran(given, config_file, pack_command(tree, given, config_file, clock))
    /\ UNCHANGED <<tree, clock, src>>
    /\ UNCHANGED <<threads, services>>

InitCli == Init /\ cfg = PackConfig

NextCli == PackCommand \/ Tick

SpecCli == InitCli /\ [][NextCli]_vars

(***************************************************************************)
(* The content transform on its own: a file whose text is made of code,    *)
(* blanks and comment delimiters is compressed as the file loop does it.   *)
(***************************************************************************)
\* the number of pieces a text is made of
MaxPieces == 4

\* the pieces of a text: code, comment delimiters, white space
Pieces ==
    {<<"c">>, <<"x">>, <<"=">>, <<" ">>, <<"\n">>, <<"/", "/">>, <<"/", "*">>, <<"*", "/">>}

\* the texts of at most MaxPieces pieces
CompressTexts ==
    UNION {{Concat(ps) : ps \in [1..n -> Pieces]} : n \in 0..MaxPieces}

\* the file that is compressed
SourcePath == <<"a", ".", "c">>

\* a file lies in the directory; compress is set, max_compress is set or not
InitCompress ==
    /\ tree \in {[p \in {SourcePath} |-> text] : text \in CompressTexts}
    /\ cfg \in {[PackConfig EXCEPT !.compress = TRUE, !.max_compress = m] : m \in BOOLEAN}
    /\ clock = 0
    /\ disk = [outdir |-> FALSE, out |-> NoFile, index |-> NoFile]
    /\ run = NoRun
    /\ runs = 0
    /\ prev_out = NoFile
    /\ src = NoSource
    /\ ret = NoCall
    /\ NoThreads
    /\ NoServices

\* the file loop's call _compress_text(content, aggressive=cfg.max_compress)
CompressText ==
    /\ ret.op = "none"
    /\ cfg.compress
    /\ ret' = [NoCall EXCEPT !.op = "_compress_text", !.path = SourcePath, !.status = "ok",
                             !.value = _compress_text(tree[SourcePath], cfg.max_compress)]
    /\ UNCHANGED <<tree, cfg, clock, disk, run, runs, prev_out, src>>
    /\ UNCHANGED <<threads, services>>

NextCompress == CompressText

SpecCompress == InitCompress /\ [][NextCompress]_vars

(***************************************************************************)
(* The claims about packing.                                               *)
(***************************************************************************)
\* rel_path matches at least one of the patterns
matches_some(rel_path, patterns) ==
    \E i \in 1..Len(patterns) : _match_glob(patterns[i], glob_target(patterns[i], rel_path))

\* the files of the packed directory that match an exclude and an include pattern
BothMatched ==
    IF cfg.include_globs = << >> THEN {}
    ELSE {f \in DOMAIN tree : /\ matches_some(f, cfg.include_globs)
                              /\ matches_some(f, cfg.exclude_globs)}

\* f lies in a directory the walk removed from its list of subdirectories
InPruned(f) ==
    \E i \in 1..Len(run.walk) : \E j \in 1..Len(run.walk[i].pruned) :
        Under(f, join(run.walk[i].root, run.walk[i].pruned[j]))

\* the bundle and the index hold nothing of file f, and f was not processed
LeftOut(f) ==
    /\ f \notin Range(run.processed)
    /\ ~Contains(run.data, START_PFX \o f \o MARK_SFX)
    /\ ~Contains(run.data, END_PFX \o f \o MARK_SFX)
    /\ \A i \in 1..Len(run.index_files) : run.index_files[i].rel # f
    /\ ~Contains(run.index_text, f)

\* C3 as stated: after a run, every file that matches an exclude pattern and an
\* include pattern has no markers and no content in the bundle, is in no index,
\* and is in the list of skipped files
C3_ExcludeBeatsInclude_AsStated ==
    run.status = "ok" =>
        \A f \in BothMatched : LeftOut(f) /\ f \in Range(run.skipped)

\* C3: after a run, every file that matches an exclude pattern and an include
\* pattern has no markers and no content in the bundle, is in no index and is not
\* processed; it is in the list of skipped files exactly when it does not lie in
\* a directory the walk pruned (such a file is never visited and counted nowhere)
C3_ExcludeBeatsInclude ==
    run.status = "ok" =>
        \A f \in BothMatched : LeftOut(f) /\ (f \in Range(run.skipped) <=> ~InPruned(f))

\* a run skipped a file that matches both an include and an exclude pattern
C3_Witness ==
    /\ run.status = "ok"
    /\ \E f \in BothMatched : f \in Range(run.skipped)

\* C4: a run that follows an earlier run, with the same config object and the
\* same directory, leaves the output file with the bytes the earlier run wrote
C4_Idempotent ==
    (run.status = "ok" /\ prev_out # NoFile) => disk.out = prev_out

\* C5: with gzip_out and base64_out set, base64-decoding the output file and
\* gunzipping the result gives the bytes of the bundle that the same run writes
\* with both flags off
C5_EnvelopeRoundTrip ==
    (run.status = "ok" /\ cfg.gzip_out /\ cfg.base64_out) =>
        gzip_decompress(b64decode(disk.out))
        = pack_directory(tree, [cfg EXCEPT !.gzip_out = FALSE, !.base64_out = FALSE],
                         clock).out_bytes

\* a run wrote a bundle with file content through both envelope stages
C5_Witness ==
    /\ run.status = "ok"
    /\ cfg.gzip_out /\ cfg.base64_out
    /\ run.processed # << >>
    /\ Decode(gzip_decompress(b64decode(disk.out))) = run.data

\* C8: with index_only set and no index_output, the output file holds the
\* rendered index (the path of every processed file is in it) and no file marker
C8_IndexOnlyOutput ==
    (run.status = "ok" /\ cfg.index_only /\ cfg.index_output = << >>) =>
        /\ Contains(Decode(disk.out), run.index_text)
        /\ \A i \in 1..Len(run.processed) : Contains(Decode(disk.out), run.processed[i])
        /\ ~Contains(Decode(disk.out), START_PFX)
        /\ ~Contains(Decode(disk.out), END_PFX)

\* C9: a pack_directory call with base64_out set and gzip_out unset ends in the
\* configuration error and leaves the output directory, the output file and the
\* index file as they were; and no run that wrote its output had base64_out set
\* without gzip_out
C9_ConfigErrorFailsFast ==
    /\ [][(runs' = runs + 1 /\ cfg.base64_out /\ ~cfg.gzip_out)
            => (run'.status = "ValueError" /\ disk' = disk)]_vars
    /\ [](run.status = "ok" => (cfg.base64_out => cfg.gzip_out))

\* a call ended in the configuration error with nothing on the disk
C9_Witness ==
    /\ run.status = "ValueError"
    /\ cfg.base64_out /\ ~cfg.gzip_out
    /\ disk = [outdir |-> FALSE, out |-> NoFile, index |-> NoFile]

\* C10: the walk visits no file that lies in a subtree a default denial
\* excludes, and no directory of such a subtree: these are pruned, not filtered
\* file by file
C10_Pruning ==
    run.status = "ok" =>
        /\ \A f \in Range(walked_files(run.walk)) : ~_should_exclude(f, default_excludes)
        /\ \A i \in 1..Len(run.walk) :
              ~_should_exclude(join(run.walk[i].root, <<"x">>), default_excludes)

(***************************************************************************)
(* The claims about the sources.                                           *)
(***************************************************************************)
\* the listing of the loaded source
list_files(self) ==
    IF self.kind = "bundle" THEN bundle_list_files(self) ELSE dir_list_files(self)

\* C1: for a bundle packed without the transform and with file bodies, get_file
\* with no line range on the source loaded from it returns, for every processed
\* file, exactly the content the file has in the directory
C1_RoundTrip ==
    (/\ src.kind = "bundle" /\ src.opened = runs /\ run.status = "ok"
     /\ ~cfg.compress /\ ~cfg.index_only
     /\ ret.op = "get_file" /\ ret.range = <<NoLine, NoLine>>
     /\ ret.path \in Range(run.processed))
    => (ret.status = "ok" /\ ret.value = tree[ret.path])

\* C2: with no include pattern and only the default excludes, the source
\* loaded from the packed bundle lists exactly the files of the directory that
\* no default exclude matches, whatever the transform and index flags
C2_ListFiles ==
    (/\ src.kind = "bundle" /\ src.opened = runs /\ run.status = "ok"
     /\ cfg.include_globs = << >>
     /\ Range(cfg.exclude_globs) = Range(default_excludes))
    => bundle_list_files(src)
       = SortTexts({f \in DOMAIN tree : ~_should_exclude(f, default_excludes)})

\* path, joined to the root, names a place outside the root
outside_root(path) ==
    LET at == resolve(tree, << >>, components(join(InputRoot, path))).at
        root == components(InputRoot)
    IN  ~(Len(at) >= Len(root) /\ SubSeq(at, 1, Len(root)) = root)

\* C6: DirSource.get_file with a path that resolves outside the root ends in an
\* error and returns no content
C6_NoTraversal ==
    (src.kind = "dir" /\ ret.op = "get_file" /\ outside_root(ret.path))
    => (ret.status # "ok" /\ ret.value = << >>)

\* C7: get_file with a path that the source's listing does not hold ends in
\* the not-found error
C7_NotFound ==
    (src.kind # "none" /\ ret.op = "get_file" /\ ret.path \notin Range(list_files(src)))
    => ret.status = "FileNotFoundError"

(***************************************************************************)
(* The claims about search.                                                *)
(***************************************************************************)
\* a search call has returned
SearchReturned == ret.op = "search"

\* the tokens of the query of the call that returned
asked_tokens == query_tokens(ret.query)

\* the text of file p as the loaded source reads it
source_text(p) ==
    IF src.kind = "dir" THEN read_file(tree, join(InputRoot, p))
    ELSE bundle_get_file(src, disk.out, p, NoLine, NoLine)

\* the line a hit points at
hit_line(h) == text_lines(source_text(h.path).value)[h.line]

\* the positions of the query tokens that match the line of hit h
line_tokens(h) ==
    {k \in 1..Len(asked_tokens) : pattern_search(asked_tokens[k], hit_line(h), ret.case_sensitive)}

\* the file name of hit h contains token T, letters compared without case
name_has(h, T) == Contains(basename(Lower(h.path)), Lower(T))

\* the positions of the query tokens other than T that the file name of h contains
other_names(h, T) ==
    {k \in 1..Len(asked_tokens) :
        Lower(asked_tokens[k]) # Lower(T) /\ name_has(h, asked_tokens[k])}

\* hits a and b differ in nothing the claim names but the file name: the same
\* number of tokens on the line, the same file type bonus, no noise penalty,
\* and T in the file name of a only
AlikeButName(a, b, T) ==
    /\ Cardinality(line_tokens(a)) = Cardinality(line_tokens(b))
    /\ dir_file_type(basename(Lower(a.path))) = dir_file_type(basename(Lower(b.path)))
    /\ dir_noise(Lower(a.path)) = 0
    /\ dir_noise(Lower(b.path)) = 0
    /\ name_has(a, T)
    /\ ~name_has(b, T)

\* C11 as the spec states it: of two returned hits alike in line matches, file
\* type and noise, the one whose file name contains token T scores strictly
\* higher and comes first
C11_FilenameRanksHigher_AsStated ==
    SearchReturned =>
        \A T \in Range(asked_tokens) : \A i, j \in 1..Len(ret.value) :
            AlikeButName(ret.value[i], ret.value[j], T)
            => (ret.value[i].score > ret.value[j].score /\ i < j)

\* C11: of two returned hits alike in line matches, file type and noise, and
\* whose file names contain equally many of the other query tokens, the one whose
\* file name contains token T scores strictly higher and comes first
C11_FilenameRanksHigher ==
    SearchReturned =>
        \A T \in Range(asked_tokens) : \A i, j \in 1..Len(ret.value) :
            (/\ AlikeButName(ret.value[i], ret.value[j], T)
             /\ Cardinality(other_names(ret.value[i], T))
                = Cardinality(other_names(ret.value[j], T)))
            => (ret.value[i].score > ret.value[j].score /\ i < j)

\* a query of several tokens returned two such hits, both with another token in
\* their file names
C11_Witness ==
    /\ SearchReturned
    /\ \E T \in Range(asked_tokens) : \E i, j \in 1..Len(ret.value) :
          /\ AlikeButName(ret.value[i], ret.value[j], T)
          /\ Cardinality(other_names(ret.value[i], T)) = Cardinality(other_names(ret.value[j], T))
          /\ other_names(ret.value[j], T) # {}

\* the distinct query tokens that match the line of hit h
distinct_line_tokens(h) == {asked_tokens[k] : k \in line_tokens(h)}

\* the positions of the query tokens the file name of h contains
name_tokens(h) == {k \in 1..Len(asked_tokens) : name_has(h, asked_tokens[k])}

\* the score the spec's formula gives hit h
formula_score(h) ==
    Max2(0, 10 * Cardinality(distinct_line_tokens(h)) + 20 * Cardinality(name_tokens(h))
            + dir_file_type(basename(Lower(h.path))) - dir_noise(Lower(h.path)))

\* C12: the score of every returned hit is max(0, 10 x the number of distinct
\* query tokens matching its line + 20 x the number of query tokens in its file
\* name + file type bonus - noise penalty)
C12_ScoreFormula ==
    SearchReturned => \A i \in 1..Len(ret.value) : ret.value[i].score = formula_score(ret.value[i])

\* the files the loaded source lists, in the order search goes through them
listing == IF src.kind = "dir" THEN dir_list_files(src) ELSE bundle_list_files(src)

\* the lines of listed file p, none when it cannot be read
lines_of(p) == IF source_text(p).status = "ok" THEN text_lines(source_text(p).value) ELSE << >>

\* the lines of every listed file
listed_lines == [f \in 1..Len(listing) |-> lines_of(listing[f])]

\* the lines among file_lines that at least one query token matches, each as
\* <<position of the file in the listing, line number>>
matching_lines(file_lines, tokens) ==
    UNION {{<<f, n>> : n \in {m \in 1..Len(file_lines[f]) :
                                \E k \in 1..Len(tokens) :
                                    pattern_search(tokens[k], file_lines[f][m],
                                                   ret.case_sensitive)}} :
           f \in 1..Len(file_lines)}

\* where each of the hits was encountered: the position of its file in the
\* listing, its line
met(hits, files) ==
    [i \in 1..Len(hits) |->
        <<CHOOSE f \in 1..Len(files) : files[f] = hits[i].path, hits[i].line>>]

\* a hit met at a was encountered before a hit met at b
met_before(a, b) == a[1] < b[1] \/ (a[1] = b[1] /\ a[2] < b[2])

\* what the call that returned gives when every hit is asked for
all_results ==
    IF src.kind = "dir"
    THEN dir_search(tree, src, ret.query, DefaultMaxResults, ret.case_sensitive)
    ELSE bundle_search(src, disk.out, ret.query, DefaultMaxResults, ret.case_sensitive)

\* hits, met at the places where, are in non-increasing score order, hits of
\* equal score in the order they were encountered
ranked(hits, where) ==
    \A i, j \in 1..Len(hits) :
        i < j => \/ hits[i].score > hits[j].score
                 \/ hits[i].score = hits[j].score /\ met_before(where[i], where[j])

\* hits, met at the places where, are the hits of the lines in matching, ranked
all_ranked(hits, where, matching) ==
    /\ Range(where) = matching
    /\ Len(hits) = Cardinality(matching)
    /\ ranked(hits, where)

\* C13: the hits of all matching lines, put in non-increasing score order with
\* ties in encounter order, are cut to their first max_results to give the result
C13_OrderAndSize ==
    SearchReturned =>
        /\ all_ranked(all_results, met(all_results, listing),
                      matching_lines(listed_lines, asked_tokens))
        /\ Len(ret.value) = Min2(ret.max_results, Len(all_results))
        /\ ret.value = SubSeq(all_results, 1, Len(ret.value))

\* some of the hits, met at the places where, have the same score, and some
\* hit encountered later stands in front
tie_and_reorder(hits, where) ==
    /\ \E i, j \in 1..Len(hits) : i < j /\ hits[i].score = hits[j].score
    /\ \E i, j \in 1..Len(hits) : i < j /\ met_before(where[j], where[i])

\* a search cut to one hit returned, where the full order has a tie and puts a
\* hit encountered later in front
C13_Witness ==
    /\ SearchReturned
    /\ ret.max_results = 1
    /\ Len(ret.value) = 1
    /\ tie_and_reorder(all_results, met(all_results, listing))

\* the directory that holds the files the loaded bundle lists, each with the
\* text the bundle gives for it
as_dir ==
    [p \in DOMAIN src._index |-> bundle_get_file(src, disk.out, p, NoLine, NoLine).value]

\* a DirSource on directory t lists the files the loaded bundle lists, in the
\* same order, and gives the same text for each
same_files(t, dir) ==
    /\ dir_list_files(dir) = bundle_list_files(src)
    /\ \A p \in Range(bundle_list_files(src)) :
          dir_get_file(t, p, NoLine, NoLine)
          = bundle_get_file(src, disk.out, p, NoLine, NoLine)

\* the hits are those that DirSource dir on directory t returns for the call
same_hits(t, dir, hits) ==
    hits = dir_search(t, dir, ret.query, ret.max_results, ret.case_sensitive)

\* C14: a search of a bundle returns the hits that the same search returns on a
\* directory with the same listing and the same text for every file
C14_SourceEquivalence ==
    (SearchReturned /\ src.kind = "bundle") =>
        /\ same_files(as_dir, DirSource(as_dir, NoIndex))
        /\ same_hits(as_dir, DirSource(as_dir, NoIndex), ret.value)

\* a search of a bundle returned hits in two files
C14_Witness ==
    /\ SearchReturned
    /\ src.kind = "bundle"
    /\ \E i, j \in 1..Len(ret.value) : ret.value[i].path # ret.value[j].path

(***************************************************************************)
(* The claims about scanning a bundle.                                     *)
(***************************************************************************)
\* a BundleSource has been built from the bundle on the disk
Scanned == src.kind = "bundle"

\* the k-th of the lines is a START marker
is_start(lines, k) == marker_group(lines[k].line, START_PFX) # NoMatch

\* the k-th of the lines is an END marker
is_end(lines, k) ==
    ~is_start(lines, k) /\ marker_group(lines[k].line, END_PFX) # NoMatch

\* the path a marker line names
start_path(lines, k) == Decode(marker_group(lines[k].line, START_PFX))

end_path(lines, k) == Decode(marker_group(lines[k].line, END_PFX))

\* the offset at which the line after the k-th begins
after(lines, k) == lines[k].offset + Len(lines[k].line)

\* the first marker line after the k-th, 0 when there is none
next_marker(lines, k) ==
    IF \E j \in (k + 1)..Len(lines) : is_start(lines, j) \/ is_end(lines, j)
    THEN CHOOSE j \in (k + 1)..Len(lines) :
            /\ is_start(lines, j) \/ is_end(lines, j)
            /\ \A m \in (k + 1)..(j - 1) : ~is_start(lines, m) /\ ~is_end(lines, m)
    ELSE 0

\* the last marker line before the k-th, 0 when there is none
prev_marker(lines, k) ==
    IF \E j \in 1..(k - 1) : is_start(lines, j) \/ is_end(lines, j)
    THEN CHOOSE j \in 1..(k - 1) :
            /\ is_start(lines, j) \/ is_end(lines, j)
            /\ \A m \in (j + 1)..(k - 1) : ~is_start(lines, m) /\ ~is_end(lines, m)
    ELSE 0

\* the span stored under an open path was closed by an END marker that names
\* that path
closed_by_own_end(lines, index) ==
    \A p \in DOMAIN index :
        \E k \in 1..Len(lines) :
            /\ is_end(lines, k)
            /\ lines[k].offset = index[p][2]
            /\ end_path(lines, k) = p

\* C15: every span of the offset index ends at an END marker whose path equals
\* the path of the START marker that opened it
C15_EndMatchesOpenPath == Scanned => closed_by_own_end(raw_lines(disk.out), src._index)

\* the k-th line is a START marker with another START marker or the end of the
\* file before any END marker
unterminated(lines, k) ==
    /\ is_start(lines, k)
    /\ next_marker(lines, k) = 0 \/ is_start(lines, next_marker(lines, k))

\* the k-th line is an END marker seen while no path is open
orphan_end(lines, k) ==
    /\ is_end(lines, k)
    /\ prev_marker(lines, k) = 0 \/ is_end(lines, prev_marker(lines, k))

\* the k-th line is a START marker whose next marker is an END marker
closed_start(lines, k) ==
    /\ is_start(lines, k)
    /\ next_marker(lines, k) # 0
    /\ is_end(lines, next_marker(lines, k))

\* the k-th line opens a well-formed entry: a START marker whose next marker is
\* the END marker of the same path
well_formed(lines, k) ==
    /\ closed_start(lines, k)
    /\ end_path(lines, next_marker(lines, k)) = start_path(lines, k)

\* the malformed entries left nothing in the index, and every well-formed entry
\* is indexed, with its own span unless a later entry of the same path replaced it
malformed_dropped(lines, index) ==
    \A k \in 1..Len(lines) :
        /\ unterminated(lines, k) => \A p \in DOMAIN index : index[p][1] # after(lines, k)
        /\ orphan_end(lines, k) => \A p \in DOMAIN index : index[p][2] # lines[k].offset
        /\ well_formed(lines, k) =>
              /\ start_path(lines, k) \in DOMAIN index
              /\ (\A j \in (k + 1)..Len(lines) :
                     ~(closed_start(lines, j) /\ start_path(lines, j) = start_path(lines, k)))
                 => index[start_path(lines, k)]
                    = <<after(lines, k), lines[next_marker(lines, k)].offset>>

\* C16: loading a bundle never raises, a START marker without its END and an END
\* marker without an open path leave no entry, and every well-formed START/END
\* pair is indexed
C16_MalformedDropped ==
    /\ ret.op = "load_source" => ret.status = "ok"
    /\ Scanned => malformed_dropped(raw_lines(disk.out), src._index)

\* a malformed entry stands before a well-formed one
malformed_then_well_formed(lines) ==
    \E k, j \in 1..Len(lines) :
        /\ k < j
        /\ unterminated(lines, k) \/ orphan_end(lines, k)
        /\ well_formed(lines, j)

\* a bundle with a malformed entry before a well-formed one has been loaded
C16_Witness == Scanned /\ malformed_then_well_formed(raw_lines(disk.out))

\* the lines that begin with the given FILE INDEX marker
index_marks(lines, marker) ==
    {k \in 1..Len(lines) : StartsWith(Decode(lines[k].line), marker)}

\* the lines hold a FILE INDEX section: one START marker, and END markers
\* only after it
has_section(lines) ==
    /\ Cardinality(index_marks(lines, INDEX_START)) = 1
    /\ index_marks(lines, INDEX_END) # {}
    /\ \A e \in index_marks(lines, INDEX_END) :
          \A b \in index_marks(lines, INDEX_START) : b < e

\* the non-empty lines of the section, without the white space around them
section_names(lines) ==
    {strip(Decode(lines[k].line)) :
        k \in {j \in 1..Len(lines) :
                  /\ \A b \in index_marks(lines, INDEX_START) : b < j
                  /\ \A e \in index_marks(lines, INDEX_END) : j < e}}
    \ {<< >>}

\* what list_files and get_file return when the scan found no entry and the
\* lines hold a FILE INDEX section with the given names
degraded(names) ==
    /\ ret.op = "list_files" => ret.value = SortTexts(names)
    /\ (ret.op = "get_file" /\ ret.path \in names) => ret.status = "FileNotFoundError"

Fields == DOMAIN FullPackConfig

\* C18: when a config file is given, every field of the PackConfig that is
\* passed to pack_directory has the value given on the command line if there
\* is one, and the value of the loaded config file otherwise
C18_CliOverridesFile ==
    (ret.op = "pack" /\ ret.status = "ok" /\ ret.config_file.exists) =>
        \A f \in Fields :
            ret.passed[f] = IF f \in DOMAIN ret.given THEN ret.given[f]
                            ELSE load_config_file(ret.config_file.data)[f]

(***************************************************************************)
(* The claims about the statistics of a run.                               *)
(***************************************************************************)
\* the byte sizes of the processed files, before any transform
processed_bytes ==
    SeqSum([i \in 1..Len(run.processed) |-> Len(Encode(tree[run.processed[i]]))])

\* bundle_size / total_bytes rounded to hundredths, zero for no bytes
rounded_ratio(bundle_size, total_bytes) ==
    IF total_bytes = 0 THEN 0 ELSE ratio_hundredths(bundle_size, total_bytes)

\* C19: for every run, whatever the index flags, total_bytes is the byte size
\* of the processed files before compression, bundle_size is the number of
\* bytes written to the output, and compression_ratio is bundle_size /
\* total_bytes rounded, zero exactly when total_bytes is zero
C19_WriterStats ==
    run.status = "ok" =>
        /\ run.stats.total_bytes = processed_bytes
        /\ run.stats.bundle_size = Len(disk.out)
        /\ run.stats.compression_ratio
              = rounded_ratio(run.stats.bundle_size, run.stats.total_bytes)
        /\ (run.stats.compression_ratio = 0) <=> (run.stats.total_bytes = 0)

(***************************************************************************)
(* The claims about the content transform.                                 *)
(***************************************************************************)
RECURSIVE comment_positions(_, _)
\* the positions of text, from position i on, that lie inside a comment: a //
\* with the rest of its line, a /* with everything up to the first */ after it
comment_positions(text, i) ==
    IF i > Len(text) THEN {}
    ELSE IF OccursAt(text, <<"/", "/">>, i)
    THEN LET nl == NextOcc(text, <<"\n">>, i)
             stop == IF nl = 0 THEN Len(text) + 1 ELSE nl
         IN  i..(stop - 1) \cup comment_positions(text, stop)
    ELSE IF OccursAt(text, <<"/", "*">>, i) /\ NextOcc(text, <<"*", "/">>, i + 2) # 0
    THEN LET stop == NextOcc(text, <<"*", "/">>, i + 2) + 2
         IN  i..(stop - 1) \cup comment_positions(text, stop)
    ELSE comment_positions(text, i + 1)

\* the code of text: what lies outside its comments
code_outside(text, inside) ==
    LET kept == {i \in 1..Len(text) : i \notin inside}
    IN  [k \in 1..Cardinality(kept) |-> text[Nth(kept, k)]]

\* ch occurs in text, and only inside comments
only_in_comments(text, inside, ch) ==
    /\ \E i \in 1..Len(text) : text[i] = ch
    /\ \A i \in 1..Len(text) : text[i] = ch => i \in inside

\* the aggressive transform of text left no comment character in out and kept
\* the code compacted
comments_removed(text, inside, out) ==
    /\ \A ch \in {"c", "x", "="} : only_in_comments(text, inside, ch) => ch \notin Range(out)
    /\ out = _compress_text(code_outside(text, inside), FALSE)

\* C20: the output of the aggressive transform holds no character that was
\* inside a // line comment or a /* */ block comment of the input, block
\* comments that span lines or hold // included, and the code outside the
\* comments is kept in compacted form
C20_AggressiveRemovesComments ==
    (ret.op = "_compress_text" /\ cfg.max_compress) =>
        comments_removed(tree[SourcePath], comment_positions(tree[SourcePath], 1), ret.value)

(***************************************************************************)
(* The claims about line ranges.                                           *)
(***************************************************************************)
\* what get_file(path) returns from the source that is loaded
whole_file(path) ==
    IF src.kind = "dir" THEN dir_get_file(tree, path, NoLine, NoLine).value
    ELSE bundle_get_file(src, disk.out, path, NoLine, NoLine).value

\* the first and the last line of a range over n lines
first_line(start) == IF start = NoLine THEN 1 ELSE start
last_line(end, n) == IF end = NoLine THEN n ELSE end

\* the lines of whole numbered from start to end, one after the other
lines_between(whole, first, last) ==
    Concat([k \in 1..Len(SelectSeq([i \in 1..Len(whole) |-> i],
                                   LAMBDA i : first <= i /\ i <= last))
               |-> whole[SelectSeq([i \in 1..Len(whole) |-> i],
                                   LAMBDA i : first <= i /\ i <= last)[k]]])

\* get_file returned the lines from first to last, nothing when the range is
\* empty or begins past the last line
range_returned(whole, first, last, value) ==
    /\ value = lines_between(whole, first, last)
    /\ (first > last \/ first > Len(whole)) => value = << >>

\* reading stopped at the first line whose number exceeds end
stopped_after(end, n, read) ==
    end # NoLine => read = Min2(n, end + 1)

\* the call that returned is a get_file with a range, on a retrievable path
RangeAsked ==
    /\ ret.op = "get_file"
    /\ ret.status = "ok"
    /\ ret.range # <<NoLine, NoLine>>

\* C21: for either source, get_file(path, start, end) is the concatenation of
\* the lines of get_file(path) numbered from start to end, a missing start
\* meaning 1 and a missing end the last line; it is empty when start > end or
\* start is past the last line; and reading stops once a line number exceeds
\* end
C21_LineRange ==
    RangeAsked =>
        /\ range_returned(text_lines(whole_file(ret.path)), first_line(ret.range[1]),
                          last_line(ret.range[2], Len(text_lines(whole_file(ret.path)))),
                          ret.value)
        /\ stopped_after(ret.range[2], Len(text_lines(whole_file(ret.path))), ret.read)

(***************************************************************************)
(* The claims about concurrent reads.                                      *)
(***************************************************************************)
\* what a call returns when it runs alone on the source and the bundle file
alone(call) ==
    IF call.op = "list_files" THEN [status |-> "ok", value |-> bundle_list_files(src)]
    ELSE IF call.op = "get_file" THEN bundle_get_file(src, disk.out, call.path, NoLine, NoLine)
    ELSE [status |-> "ok",
          value |-> bundle_search(src, disk.out, ReaderQuery, DefaultMaxResults, FALSE)]

\* the call has ended as it would have alone
as_alone(call) ==
    call.pc = "done" => (call.status = alone(call).status /\ call.value = alone(call).value)

\* the source is as its constructor left it
as_constructed == src = [opened |-> 1] @@ BundleSource(disk.out)

\* a handle is open only while its own thread is between open and read
own_handles ==
    \A t \in Threads : handles[t].open <=> calls[t].pc \in {"seek", "read"}

\* C22: once a BundleSource is constructed, no interleaving of list_files,
\* get_file and search calls changes the offset index or any other state of
\* the reader, each get_file reads through a handle of its own, and every
\* call returns what it returns when it runs alone
C22_ConcurrentReads ==
    (src.kind = "bundle" /\ DOMAIN calls # {}) =>
        /\ as_constructed
        /\ own_handles
        /\ \A t \in Threads : as_alone(calls[t])

\* a get_file has returned a file's text while another thread was between the
\* seek and the read of a call on another span
C22_Witness ==
    \E t, u \in Threads :
        /\ calls[t].pc = "done" /\ calls[t].op = "get_file" /\ calls[t].status = "ok"
        /\ calls[u].pc = "read" /\ calls[u].start_pos # calls[t].start_pos

(***************************************************************************)
(* The claims about the tree index.                                        *)
(***************************************************************************)
\* the lines of the rendered index
index_lines == SelectSeq(SplitOn(run.index_text, "\n"), LAMBDA l : l # << >>)

\* the number of blanks a line begins with
indent(line) ==
    Cardinality({i \in 1..Len(line) : \A j \in 1..i : line[j] = " "})

\* the name on a line: what follows the indentation, up to the metrics
entry_name(line) ==
    LET from == indent(line) + 1
        stops == {i \in from..Len(line) : line[i] \in {" ", "\t"}}
    IN  Slice(line, from, IF stops = {} THEN Len(line) ELSE (CHOOSE i \in stops : \A j \in stops : i <= j) - 1)

\* the line renders a subdirectory
is_dir_line(line) == line[Len(line)] = "/"

\* lines i < j are entries of the same directory
siblings(lines, i, j) ==
    /\ i < j
    /\ indent(lines[i]) = indent(lines[j])
    /\ \A m \in (i + 1)..(j - 1) : indent(lines[m]) > indent(lines[i])

\* of two entries of a directory the subdirectory comes first, and two of a
\* kind come in the order of their names
in_tree_order(a, b) ==
    IF is_dir_line(a) = is_dir_line(b) THEN LexLess(entry_name(a), entry_name(b))
    ELSE is_dir_line(a)

\* a line is indented as deep as the line before it, or less deep, or two
\* blanks deeper under a subdirectory
nested_by_two(lines) ==
    /\ lines # << >> => indent(lines[1]) = 0
    /\ \A i \in 1..(Len(lines) - 1) :
          \/ indent(lines[i + 1]) <= indent(lines[i]) /\ indent(lines[i + 1]) % 2 = 0
          \/ is_dir_line(lines[i]) /\ indent(lines[i + 1]) = indent(lines[i]) + 2

\* a run has rendered the index as a tree
TreeRendered == run.status = "ok" /\ want_index(cfg) /\ cfg.index_style = "tree"

\* C23: in the tree rendering, at every directory level all subdirectories
\* come before all files, each group in the lexicographic order of the names,
\* and each nesting level is indented two more spaces than its parent
C23_TreeOrder ==
    TreeRendered =>
        /\ \A i, j \in 1..Len(index_lines) :
              siblings(index_lines, i, j) => in_tree_order(index_lines[i], index_lines[j])
        /\ nested_by_two(index_lines)

(***************************************************************************)
(* The claims about the file filters.                                      *)
(***************************************************************************)
\* the pattern holds a path separator
has_separator(pat) == \E i \in 1..Len(pat) : pat[i] \in {"/", "\\"}

\* the final segment of a relative path
final_segment(path) == SplitOn(path, "/")[Len(SplitOn(path, "/"))]

\* the pattern matches what it is to be tested against
matches_by_kind(pat, path) ==
    IF has_separator(pat) THEN _match_glob(pat, path) ELSE _match_glob(pat, final_segment(path))

\* some pattern of the list matches
some_matches(pats, path) == \E i \in 1..Len(pats) : matches_by_kind(pats[i], path)

\* C24: for should_include and should_exclude, a pattern with no separator is
\* tested against the final segment of the relative path only, a pattern with
\* a separator against the whole relative path; should_include with an empty
\* list is true for every path and should_exclude with an empty list false
C24_BasenameOrFullPath ==
    ret.op = "filters" =>
        /\ ret.excluded = some_matches(cfg.exclude_globs, ret.path)
        /\ ret.included = (cfg.include_globs = << >> \/ some_matches(cfg.include_globs, ret.path))
        /\ cfg.include_globs = << >> => ret.included
        /\ cfg.exclude_globs = << >> => ~ret.excluded

\* a pattern with no separator has matched the final segment of a path that it
\* does not match as a whole
C24_Witness ==
    /\ ret.op = "filters"
    /\ ret.excluded
    /\ Len(cfg.exclude_globs) = 1
    /\ ~has_separator(cfg.exclude_globs[1])
    /\ ~_match_glob(cfg.exclude_globs[1], ret.path)

(***************************************************************************)
(* The claims about the caption conversion.                                *)
(***************************************************************************)
\* the blocks of a file: the maximal runs of lines that are not blank
blocks_of(lines) ==
    LET firsts == {i \in 1..Len(lines) :
                      lines[i] # << >> /\ (i = 1 \/ lines[i - 1] = << >>)}
        last(i) == text_end(lines, i) - 1
    IN  [n \in 1..Cardinality(firsts) |-> Slice(lines, Nth(firsts, n), last(Nth(firsts, n)))]

\* the timing line of a block is its first or its second line; 0 when the
\* block is no cue
timing_line(block) ==
    IF Contains(block[1], ARROW) THEN 1
    ELSE IF Len(block) >= 2 /\ Contains(block[2], ARROW) THEN 2
    ELSE 0

\* the block is a cue: no header, comment, style or region block, and it has a
\* timing line
is_cue(block) == ~passed_over(block[1]) /\ timing_line(block) # 0

RECURSIVE without_tags(_)
\* a text with its tags removed: each "<" with everything up to the next ">"
without_tags(t) ==
    IF \E p \in 1..Len(t) : t[p] = "<" /\ NextOcc(t, <<">">>, p) # 0
    THEN LET p == CHOOSE q \in 1..Len(t) :
                     /\ t[q] = "<" /\ NextOcc(t, <<">">>, q) # 0
                     /\ \A r \in 1..(q - 1) : t[r] # "<"
         IN  Slice(t, 1, p - 1) \o without_tags(Slice(t, NextOcc(t, <<">">>, p) + 1, Len(t)))
    ELSE t

\* the text of a cue on one line: the lines after the timing line without
\* their tags, blanks between them, runs of blanks as one
cue_text(block) ==
    one_spaced(JoinWith(<<" ">>, [k \in 1..(Len(block) - timing_line(block)) |->
                                    without_tags(block[timing_line(block) + k])]))

\* the start time of a cue as MM:SS
cue_start(block) ==
    LET ts == SplitOn(start_of(block[timing_line(block)]), ".")[1]
        parts == SplitOn(ts, ":")
        secs == int_of(parts[Len(parts)])
        mins == IF Len(parts) >= 2 THEN int_of(parts[Len(parts) - 1]) ELSE 0
        hours == IF Len(parts) >= 3 THEN int_of(parts[Len(parts) - 2]) ELSE 0
    IN  two_digits(hours * 60 + mins) \o <<":">> \o two_digits(secs)

\* the lines the claim has for a file: one for each cue with text, in order
claimed_lines(blocks) ==
    LET cues == SelectSeq(blocks, LAMBDA b : is_cue(b) /\ cue_text(b) # << >>)
    IN  [n \in 1..Len(cues) |-> cue_start(cues[n]) \o <<" ">> \o cue_text(cues[n])]

\* the lines of the text file that was written
written_lines == splitlines(Decode(disk.out))

\* C25: for every VTT input _vtt_to_text ends, writes one line for each cue
\* that has text, in cue order, the line being the start time as MM:SS and the
\* cue text without its tags, and returns the number of lines it wrote;
\* header, NOTE, STYLE, REGION and blank lines give no output
C25_VttConversion ==
    ret.op = "_vtt_to_text" =>
        /\ written_lines = claimed_lines(blocks_of(splitlines(tree[VttPath])))
        /\ ret.value = Len(written_lines)

(***************************************************************************)
(* The claims about the spans of the offset index.                         *)
(***************************************************************************)
\* every span lies in a file of n bytes and does not end before it begins
spans_in_file(index, n) ==
    \A p \in DOMAIN index :
        /\ 0 <= index[p][1]
        /\ index[p][1] <= index[p][2]
        /\ index[p][2] <= n

\* every span begins right after a START marker line and ends at the first
\* byte of an END marker line
between_markers(lines, index) ==
    \A p \in DOMAIN index :
        /\ \E k \in 1..Len(lines) : is_start(lines, k) /\ index[p][1] = after(lines, k)
        /\ \E j \in 1..Len(lines) : is_end(lines, j) /\ index[p][2] = lines[j].offset

\* the spans of two paths have no byte in common
no_overlap(index) ==
    \A p, q \in DOMAIN index :
        p # q => index[p][2] <= index[q][1] \/ index[q][2] <= index[p][1]

\* the START/END pairs of a path: its START marker lines whose next marker is
\* an END marker
pairs_of(lines, p) ==
    {k \in 1..Len(lines) : closed_start(lines, k) /\ start_path(lines, k) = p}

\* the span of the pair the k-th line opens
pair_span(lines, k) == <<after(lines, k), lines[next_marker(lines, k)].offset>>

\* the last of the pairs of a path
last_pair(lines, p) == CHOOSE k \in pairs_of(lines, p) : \A j \in pairs_of(lines, p) : j <= k

\* the paths of the index are the paths that have a pair, each with the span
\* of its last pair
last_pair_stored(lines, index) ==
    /\ \A p \in DOMAIN index : pairs_of(lines, p) # {}
    /\ \A k \in 1..Len(lines) :
          closed_start(lines, k) =>
              /\ start_path(lines, k) \in DOMAIN index
              /\ index[start_path(lines, k)]
                 = pair_span(lines, last_pair(lines, start_path(lines, k)))

\* C26: after a BundleSource is built, every span of its index lies in the
\* file with start <= end, begins right after a START marker line and ends at
\* the first byte of an END marker line, the spans of distinct paths do not
\* overlap, and a path with several START/END pairs has the span of its last
\* pair
C26_SpanInvariant ==
    Scanned =>
        /\ spans_in_file(src._index, Len(disk.out))
        /\ between_markers(raw_lines(disk.out), src._index)
        /\ no_overlap(src._index)
        /\ last_pair_stored(raw_lines(disk.out), src._index)

\* a path has two pairs with different spans
two_pairs(lines) ==
    \E p \in {Decode(Encode(PathA)), Decode(Encode(PathB))} :
        \E k, j \in pairs_of(lines, p) : k < j /\ pair_span(lines, k) # pair_span(lines, j)

\* a bundle in which a path has two START/END pairs has been loaded
C26_Witness == Scanned /\ two_pairs(raw_lines(disk.out))

(***************************************************************************)
(* The claims about applying the defaults twice.                           *)
(***************************************************************************)
\* C27: apply_defaults is idempotent: a step on a config that apply_defaults
\* has already returned (an earlier pack_directory on the same PackConfig
\* object) leaves every field of the config as it was, the exclude list with
\* each default denial once
C27_Idempotent == [][(runs > 0 /\ ~config_error(cfg)) => cfg' = cfg]_vars

(***************************************************************************)
(* The claims about the catalog.                                           *)
(***************************************************************************)
\* the ids of the collections, in the order of the file
ids_of(collections) == [n \in 1..Len(collections) |-> collections[n].id]

\* no two collections share an id
unique_ids(collections) ==
    \A m, n \in 1..Len(collections) : collections[m].id = collections[n].id => m = n

\* new is old without its entries of col_id, then one entry of col_id with the
\* source
added_last(old, new, col_id, source) ==
    /\ new # << >>
    /\ new[Len(new)].id = col_id
    /\ new[Len(new)].source = abspath(source)
    /\ SubSeq(new, 1, Len(new) - 1) = without(old, col_id)
    /\ col_id \notin Range(ids_of(without(old, col_id)))

\* new is old without its entries of col_id
taken_out(old, new, col_id) ==
    /\ col_id \notin Range(ids_of(new))
    /\ new = without(old, col_id)

all_returned == \A p \in Adders : adders[p].pc = "returned"

\* C29: when add_collection calls with distinct ids run at the same time on one
\* home, the saved catalog holds the id of every one of them once all have
\* returned
C29_NoLostUpdate ==
    all_returned =>
        \A p \in Adders : adders[p].col_id \in Range(ids_of(catalog.collections))

(***************************************************************************)
(* The claims about a batch of captures.                                   *)
(***************************************************************************)
\* the result owed for the future f: the summary of its capture, or the record
\* of its URL and its error
result_for(b, f) ==
    IF b.futures[f] = "done" THEN summary_of(b.urls[f])
    ELSE [url |-> b.urls[f], error |-> error_of(b.urls[f])]

\* results holds one result for each input URL: there is a one-to-one match of
\* the results with the positions of urls that gives each position its result
one_result_each(b) ==
    /\ Len(b.results) = Len(b.urls)
    /\ \E match \in [1..Len(b.results) -> 1..Len(b.urls)] :
          /\ \A m, n \in 1..Len(b.results) : match[m] = match[n] => m = n
          /\ \A n \in 1..Len(b.results) : b.results[n] = result_for(b, match[n])

\* the failures among the futures taken so far, in the order they were taken
failures_seen(b) == SelectSeq(b.yielded, LAMBDA f : b.futures[f] = "failed")

\* the error of the first failure seen reached the caller
first_failure_raised(b) ==
    /\ b.fail_fast
    /\ failures_seen(b) # << >>
    /\ b.raised = error_of(b.urls[failures_seen(b)[1]])

====
